---- MODULE Spec2Model ----
(***************************************************************************)
(* Model of cd365/pts: schema introspection (app/schema.go), the           *)
(* identifier helpers and the CLI entry point.                             *)
(*                                                                         *)
(* Strings are sequences of one-character strings, so that trimming,       *)
(* prefix tests and pattern matching are computed character by character.  *)
(* Table and column objects are records; a *Table pointer is an index into *)
(* the database catalog, so slices of pointers are sequences of indices.   *)
(***************************************************************************)
EXTENDS Integers, Sequences, FiniteSets, TLC

\* ------------------------------------------------------------------------
\* Bounds
\* ------------------------------------------------------------------------

\* number of catalog tables the database of a full run holds
MaxTables == 3

\* number of database statements / output calls that may fail in one run
MaxFailures == 2
MaxLen == 3
MaxColumns == 2

\* ------------------------------------------------------------------------
\* String helpers
\* ------------------------------------------------------------------------

Range(s) == {s[i] : i \in 1..Len(s)}

\* characters unicode.IsSpace accepts, as far as the inputs use them
White == {" ", "\t", "\n"}

RECURSIVE TrimLeft(_)
TrimLeft(s) ==
    IF s # <<>> /\ Head(s) \in White THEN TrimLeft(Tail(s)) ELSE s

RECURSIVE TrimRight(_)
TrimRight(s) ==
    IF s # <<>> /\ s[Len(s)] \in White
    THEN TrimRight(SubSeq(s, 1, Len(s) - 1))
    ELSE s

\* strings.TrimSpace
TrimSpace(s) == TrimRight(TrimLeft(s))

\* strings.HasPrefix / strings.HasSuffix with a one-character argument
HasPrefix(s, c) == Len(s) >= 1 /\ s[1] = c
HasSuffix(s, c) == Len(s) >= 1 /\ s[Len(s)] = c

\* the names and texts the inputs are built from
s_empty == <<>>
s_blank == <<" ">>
s_db == <<"d", "b">>
s_id == <<"i", "d">>
s_name == <<"n", "a", "m", "e">>
s_users == <<"u", "s", "e", "r", "s">>
s_users_sp == <<"u", "s", "e", "r", "s", " ">>
s_sp_users == <<" ", "u", "s", "e", "r", "s">>
s_users_x == <<"u", "s", "e", "r", "s", "_", "x">>
s_disabled_users ==
    <<"d", "i", "s", "a", "b", "l", "e", "d", "_", "u", "s", "e", "r", "s">>
s_log_2023 == <<"l", "o", "g", "_", "2", "0", "2", "3">>
s_log_x == <<"l", "o", "g", "_", "x">>
s_logbook == <<"l", "o", "g", "b", "o", "o", "k">>
s_system_table_name ==
    <<"s", "y", "s", "t", "e", "m", "_", "t", "a", "b", "l", "e", "_",
      "n", "a", "m", "e">>
p_log == <<"^", "l", "o", "g", "_", ".", "*", "$">>
p_disabled == <<"^", "d", "i", "s", "a", "b", "l", "e", "d", "_", ".", "*", "$">>
p_sp_log == <<" ", "^", "l", "o", "g", "_", ".", "*", "$">>
s_real == <<"r", "e", "a", "l">>
s_other == <<"o", "t", "h", "e", "r">>
s_colfb == <<"c", "f", "b">>

\* a nil *string
NilStr == <<"<nil>">>

\* ------------------------------------------------------------------------
\* regexp: the patterns are "^" body "$" where body is made of literal
\* characters, "." and ".*"
\* ------------------------------------------------------------------------

RECURSIVE RegexMatch(_, _)
RegexMatch(p, s) ==
    IF p = <<>> THEN s = <<>>
    ELSE IF Len(p) >= 2 /\ p[1] = "." /\ p[2] = "*"
         THEN \E k \in 0..Len(s) :
                 RegexMatch(SubSeq(p, 3, Len(p)), SubSeq(s, k + 1, Len(s)))
         ELSE /\ s # <<>>
              /\ (p[1] = "." \/ p[1] = s[1])
              /\ RegexMatch(Tail(p), Tail(s))

\* (*regexp.Regexp).MatchString for a pattern compiled from "^" body "$"
MatchString(re, s) == RegexMatch(SubSeq(re, 2, Len(re) - 1), s)

\* ------------------------------------------------------------------------
\* Configuration
\* ------------------------------------------------------------------------

\* a nil map[string]*struct{}
NilMap == [isNil |-> TRUE, keys |-> {}]

\* the test initConfigDisableTable uses to tell a pattern from a literal
IsPattern(v) == HasPrefix(v, "^") /\ HasSuffix(v, "$")

\* initConfigDisableTable: every entry is trimmed; an entry bounded by ^ and $
\* is appended to DisableTableRegexp, every other entry becomes a key of
\* DisableTableMap, which is allocated on the first such entry
initConfigDisableTable(c) ==
    LET trimmed == [i \in 1..Len(c.DisableTable) |-> TrimSpace(c.DisableTable[i])]
        literals == {trimmed[i] : i \in {j \in 1..Len(trimmed) : ~IsPattern(trimmed[j])}}
    IN  [c EXCEPT
            !.DisableTableRegexp = SelectSeq(trimmed, IsPattern),
            !.DisableTableMap =
                IF literals = {} THEN NilMap
                ELSE [isNil |-> FALSE, keys |-> literals]]

\* isTableDisabled
isTableDisabled(c, table) ==
    IF ~c.DisableTableMap.isNil
    THEN table \in c.DisableTableMap.keys
    ELSE \E i \in 1..Len(c.DisableTableRegexp) :
             MatchString(c.DisableTableRegexp[i], table)

\* ------------------------------------------------------------------------
\* The database: a catalog of tables, ordered by name as the ORDER BY of
\* the listing queries returns them
\* ------------------------------------------------------------------------

\* tokens of the texts the database returns for a table definition
t_create_table == "CREATE TABLE"
t_create_index == "CREATE INDEX"
t_create_unique == "CREATE UNIQUE INDEX"
t_autoinc_n == "AUTO_INCREMENT=7"
t_nextval == "nextval('"
t_regclass == "'::regclass)"
t_quote == "\""
s_auto_increment == <<"auto_increment">>
s_seq == <<"s", "q">>

\* what the database reports for the type of a column: is_nullable,
\* data_type and the declared column type
a_bigint_no == [IsNullable |-> <<"N", "O">>, DataType |-> <<"b", "i", "g", "i", "n", "t">>, Type |-> <<"I", "N", "T", "E", "G", "E", "R">>]
a_varchar_yes == [IsNullable |-> <<"Y", "E", "S">>, DataType |-> <<"c", "h", "a", "r", "a", "c", "t", "e", "r", " ", "v", "a", "r", "y", "i", "n", "g">>, Type |-> <<"V", "A", "R", "C", "H", "A", "R", "(", "9", ")">>]
a_blob_yes == [IsNullable |-> <<"Y", "E", "S">>, DataType |-> <<"b", "y", "t", "e", "a">>, Type |-> <<"B", "L", "O", "B">>]

DbColumnTyped(name, comment, default, extra, attrs) ==
    [Column |-> name, Comment |-> comment, ColumnDefault |-> default, Extra |-> extra,
     IsNullable |-> attrs.IsNullable, DataType |-> attrs.DataType, Type |-> attrs.Type]

DbColumn(name, comment, default, extra) ==
    DbColumnTyped(name, comment, default, extra, a_bigint_no)

DbTable(name, comment, columns) ==
    [Table |-> name, Comment |-> comment, Columns |-> columns,
     Ddl |-> <<t_create_table>> \o name \o <<t_autoinc_n, t_create_index, t_create_unique>>]

c_id_serial ==
    DbColumn(s_id, NilStr, <<t_nextval, t_quote>> \o s_seq \o <<t_quote, t_regclass>>,
             s_auto_increment)
c_id_plain == DbColumn(s_id, NilStr, NilStr, NilStr)
c_id_real == DbColumn(s_id, s_real, NilStr, s_auto_increment)
c_name_self == DbColumnTyped(s_name, s_name, NilStr, NilStr, a_varchar_yes)
c_name_real == DbColumnTyped(s_name, s_real, <<"x">>, NilStr, a_blob_yes)
c_underscores == DbColumn(<<"_", "_">>, NilStr, NilStr, NilStr)

\* the catalog of a full run: tables without comment, with a comment equal
\* to the table name and with a real comment; the same for columns
Catalog ==
    << DbTable(s_log_x, NilStr, <<c_id_serial, c_name_self>>),
       DbTable(s_logbook, s_logbook, <<c_id_real>>),
       DbTable(s_users, s_real, <<c_name_real, c_id_plain>>),
       DbTable(s_users_x, NilStr, <<c_id_plain, c_underscores>>) >>

\* the catalog the table filter is exercised on
FilterCatalog ==
    << DbTable(s_disabled_users, NilStr, <<c_id_plain>>),
       DbTable(s_log_2023, NilStr, <<c_id_plain>>),
       DbTable(s_log_x, NilStr, <<c_id_plain>>),
       DbTable(s_logbook, NilStr, <<c_id_plain>>),
       DbTable(s_system_table_name, NilStr, <<c_id_plain>>),
       DbTable(s_users, NilStr, <<c_id_plain>>),
       DbTable(s_users_sp, NilStr, <<c_id_plain>>) >>

Drivers == {"mysql", "postgresql", "sqlite"}

\* ------------------------------------------------------------------------
\* Configurations
\* ------------------------------------------------------------------------

EmptyMap == [x \in {} |-> <<>>]

NewConfig(only, deny, comments) ==
    [OnlyTable |-> only, DisableTable |-> deny, DisableTableMap |-> NilMap,
     DisableTableRegexp |-> <<>>, Comments |-> comments, TablePrefix |-> s_empty]

p_log_ == <<"l", "o", "g", "_">>

cm_full ==
    [n \in {s_log_x, s_logbook, s_users, s_users_x} |->
        [Comment |-> s_other, Columns |-> (s_id :> s_colfb @@ s_name :> s_colfb)]]

cm_mixed ==
    (s_log_x :> [Comment |-> s_empty, Columns |-> (s_id :> s_empty @@ s_name :> s_colfb)])
    @@ (s_logbook :> [Comment |-> s_other, Columns |-> EmptyMap])
    @@ (s_users :> [Comment |-> s_empty, Columns |-> (s_name :> s_colfb)])

CommentChoices == {EmptyMap, cm_full, cm_mixed}

RunFilterChoices ==
    { <<s_empty, s_empty>>, <<s_empty, <<p_log>> >>, << <<s_users, s_logbook>>, <<p_log>> >> }

\* the configurations of a full run; the one without table filter has a
\* table prefix
RunConfigs ==
    {[NewConfig(f[1], f[2], c) EXCEPT
         !.TablePrefix = IF f = <<s_empty, s_empty>> THEN p_log_ ELSE s_empty] :
       f \in RunFilterChoices, c \in CommentChoices}

OnlyChoices ==
    { s_empty, <<s_users>>, <<s_users, s_disabled_users>>, <<s_log_x, s_disabled_users>>,
      <<s_users_sp>>, <<s_sp_users>>, <<s_blank>>, <<s_blank, s_logbook>> }

DenyChoices ==
    { s_empty, <<s_system_table_name>>, <<p_log>>, <<s_system_table_name, p_log>>,
      <<p_disabled, p_log>>, <<s_log_2023>>, <<p_sp_log>>, <<s_sp_users, s_blank>> }

FilterConfigs ==
    {NewConfig(o, d, EmptyMap) : o \in OnlyChoices, d \in DenyChoices}

\* ------------------------------------------------------------------------
\* State
\* ------------------------------------------------------------------------

VARIABLES
    driver,       \* way.Config().Manual.DatabaseType
    cfg,          \* *Config
    db,           \* the tables of the database, ordered by name
    pc,           \* position of the main goroutine (start -> Run -> GetAllTables ...)
    lists,        \* GetAllTables: the tables QueryTables returned
    tables,       \* GetAllTables: the tables that passed the filter
    tab,          \* the Table objects, by catalog index
    denyCalls,    \* names isTableDisabled was called with
    k,            \* loop index of QuerySchemas over its tables
    task,         \* position of the goroutine of each table
    wg,           \* sync.WaitGroup counter
    onceDone,     \* sync.Once: done
    errorQuery,   \* QuerySchemas: the shared error
    firstErr,     \* the first error any task handed to once.Do
    failed,       \* the statements that failed so far
    installed,    \* the deferred removal of the helper procedure is registered
    dropIssued,   \* the removal statement was executed
    retTables,    \* Run: the tables GetAllTables returned
    err,          \* Run: err
    tmp,          \* Run: the Template handed to output
    outputCalls,  \* number of calls of the output function
    stdout,       \* what start wrote to os.Stdout
    stmts,        \* the statements sent to the database so far
    input,        \* the arguments of a function that is called on its own
    result        \* what that function returned

vars ==
    <<driver, cfg, db, pc, lists, tables, tab, denyCalls, k, task, wg, onceDone,
      errorQuery, firstErr, failed, installed, dropIssued, retTables, err, tmp,
      outputCalls, stdout, stmts, input, result>>

\* the variables of a run of the CLI
progVars ==
    <<driver, cfg, db, pc, lists, tables, tab, denyCalls, k, task, wg, onceDone,
      errorQuery, firstErr, failed, installed, dropIssued, retTables, err, tmp,
      outputCalls, stdout>>

runVars == <<progVars, stmts>>

\* a nil error; an error names the failed statement and the table it was for
NoErr == <<"nil", 0>>

\* a nil []*Table
NilTables == <<0>>

\* a nil *Template / no bytes written
Nothing == [Tables |-> <<>>, AllTableColumns |-> <<>>, set |-> FALSE]

ZeroTable ==
    [Database |-> s_empty, Table |-> s_empty, Comment |-> s_empty, Columns |-> <<>>,
     Defined |-> <<>>, AutoIncrementColumn |-> s_empty, TableGoTypeName |-> s_empty,
     TableGoTypeNameTimestamp |-> s_empty]

\* the state of a program that has not called Run yet
InitRun(drivers, configs, catalog) ==
    /\ driver \in drivers
    /\ cfg \in {initConfigDisableTable(c) : c \in configs}
    /\ db = catalog
    /\ pc = "Run"
    /\ lists = <<>>
    /\ tables = <<>>
    /\ tab = [i \in 1..Len(catalog) |-> ZeroTable]
    /\ denyCalls = {}
    /\ k = 1
    /\ task = [i \in 1..Len(catalog) |-> "idle"]
    /\ wg = 0
    /\ onceDone = FALSE
    /\ errorQuery = NoErr
    /\ firstErr = NoErr
    /\ failed = {}
    /\ installed = FALSE
    /\ dropIssued = FALSE
    /\ retTables = NilTables
    /\ err = NoErr
    /\ tmp = Nothing
    /\ outputCalls = 0
    /\ stdout = Nothing
    /\ stmts = {}

InitWith(configs, catalog) ==
    /\ InitRun(Drivers, configs, catalog)
    /\ input = <<>>
    /\ result = <<>>

\* a run of the CLI against the catalog
Init == InitWith(RunConfigs, SubSeq(Catalog, 1, MaxTables))

\* a run of the CLI against the filter catalog
InitFilter == InitWith(FilterConfigs, FilterCatalog)

\* a statement may fail while the failure budget lasts
MayFail == Cardinality(failed) < MaxFailures

\* a statement sent to the database: its kind, the table it is for, and
\* whether the helper procedure was installed and removed when it was sent
Stmt(kind, i) == <<kind, i, installed, dropIssued>>

\* a Run without deferred call
ReturnPcNoDefer == "Start"

\* where Run continues when it returns: the deferred removal, then start
ReturnPc == IF installed THEN "Defer" ELSE "Start"

\* ------------------------------------------------------------------------
\* App.Run: entry
\* ------------------------------------------------------------------------

\* Run on PostgreSQL: install the helper procedure and register its removal
Run_Install ==
    /\ pc = "Run"
    /\ driver = "postgresql"
    /\ \/ /\ installed' = TRUE
          /\ pc' = "QueryTables"
          /\ UNCHANGED <<err, failed>>
       \/ /\ MayFail
          /\ err' = <<"install", 0>>
          /\ failed' = failed \cup {<<"install", 0>>}
          /\ pc' = "Start"
          /\ UNCHANGED installed
    /\ stmts' = stmts \cup {Stmt("install", 0)}
    /\ UNCHANGED <<input, result, driver, cfg, db, lists, tables, tab, denyCalls, k, task, wg,
                   onceDone, errorQuery, firstErr, dropIssued, retTables, tmp,
                   outputCalls, stdout>>

\* Run on MySQL and SQLite: nothing to install
Run_Enter ==
    /\ pc = "Run"
    /\ driver # "postgresql"
    /\ pc' = "QueryTables"
    /\ UNCHANGED <<stmts, input, result, driver, cfg, db, lists, tables, tab, denyCalls, k, task, wg,
                   onceDone, errorQuery, firstErr, failed, installed, dropIssued,
                   retTables, err, tmp, outputCalls, stdout>>

\* ------------------------------------------------------------------------
\* GetAllTables: listing and filtering
\* ------------------------------------------------------------------------

Indices(n) == [i \in 1..n |-> i]

\* the rows the listing query selects: all tables, or with a non-empty
\* OnlyTable those whose name is IN OnlyTable, in name order
QueryTables(c, catalog) ==
    LET InOnly(i) == Len(c.OnlyTable) > 0 => catalog[i].Table \in Range(c.OnlyTable)
    IN  SelectSeq(Indices(Len(catalog)), InOnly)

\* TABLE_COMMENT of MySQL: empty when the table has no comment
Coalesce(v) == IF v = NilStr THEN s_empty ELSE v

\* the Table object a listing row is scanned into
ScanTable(d, row) ==
    IF d = "mysql"
    THEN [ZeroTable EXCEPT !.Database = s_db, !.Table = row.Table,
                           !.Comment = Coalesce(row.Comment)]
    ELSE IF d = "postgresql"
    THEN [ZeroTable EXCEPT !.Database = s_db, !.Table = row.Table]
    ELSE [ZeroTable EXCEPT !.Table = row.Table, !.Defined = row.Ddl]

GetAllTables_QueryTables ==
    /\ pc = "QueryTables"
    /\ \/ /\ lists' = QueryTables(cfg, db)
          /\ tab' = [i \in DOMAIN tab |->
                        IF i \in Range(QueryTables(cfg, db))
                        THEN ScanTable(driver, db[i]) ELSE tab[i]]
          /\ pc' = "Filter"
          /\ UNCHANGED <<err, failed>>
       \/ /\ MayFail
          /\ err' = <<"list", 0>>
          /\ failed' = failed \cup {<<"list", 0>>}
          /\ pc' = ReturnPc
          /\ UNCHANGED <<lists, tab>>
    /\ stmts' = stmts \cup {Stmt("list", 0)}
    /\ UNCHANGED <<input, result, driver, cfg, db, tables, denyCalls, k, task, wg, onceDone,
                   errorQuery, firstErr, installed, dropIssued, retTables, tmp,
                   outputCalls, stdout>>

\* GetAllTables: the trimmed, non-empty entries of OnlyTable
onlyTableMap(c) == {TrimSpace(t) : t \in Range(c.OnlyTable)} \ {s_empty}

\* the filter loop with the deny-list consulted in allow-list mode too
KeepTableDenyAlways(c, name) ==
    /\ (onlyTableMap(c) # {} => name \in onlyTableMap(c))
    /\ ~isTableDisabled(c, name)

\* GetAllTables: does the filter loop keep a listed table
KeepTable(c, name) ==
    IF onlyTableMap(c) # {}
    THEN name \in onlyTableMap(c)
    ELSE ~isTableDisabled(c, name)

RECURSIVE Reverse(_)
Reverse(q) == IF q = <<>> THEN <<>> ELSE Reverse(Tail(q)) \o <<Head(q)>>

\* a filter loop that puts every kept table in front of the earlier ones
FilterTablesPrepend(c, listed, objs) ==
    LET Keep(i) == KeepTable(c, objs[i].Table)
    IN  Reverse(SelectSeq(listed, Keep))

\* GetAllTables: the filter loop over the listed tables
FilterTables(c, listed, objs) ==
    LET Keep(i) == KeepTable(c, objs[i].Table)
    IN  SelectSeq(listed, Keep)

\* the names the filter loop hands to isTableDisabled
DenyEvaluated(c, listed, objs) ==
    IF onlyTableMap(c) # {} THEN {} ELSE {objs[i].Table : i \in Range(listed)}

GetAllTables_Filter ==
    /\ pc = "Filter"
    /\ tables' = FilterTables(cfg, lists, tab)
    /\ denyCalls' = DenyEvaluated(cfg, lists, tab)
    /\ k' = 1
    /\ pc' = "QuerySchemas"
    /\ UNCHANGED <<stmts, input, result, driver, cfg, db, lists, tab, task, wg, onceDone, errorQuery,
                   firstErr, failed, installed, dropIssued, retTables, err, tmp,
                   outputCalls, stdout>>

\* ------------------------------------------------------------------------
\* Column and definition queries
\* ------------------------------------------------------------------------

\* the Column objects QueryColumns builds from the rows of a table
ZeroColumn ==
    [Column |-> s_empty, Comment |-> s_empty, ColumnDefault |-> NilStr, Extra |-> NilStr,
     IsNullable |-> NilStr, DataType |-> NilStr, Type |-> NilStr,
     ColumnCamel |-> s_empty, ColumnPascal |-> s_empty, ColumnUnderline |-> s_empty,
     GoType |-> s_empty]

\* SchemaSqlite.QueryColumns: "no" for a NOT NULL column, "yes" otherwise
SqliteIsNullable(c) ==
    IF c.IsNullable = <<"N", "O">> THEN <<"n", "o">> ELSE <<"y", "e", "s">>

ScanColumns(d, row) ==
    [j \in 1..Len(row.Columns) |->
        LET c == row.Columns[j]
        IN  IF d = "mysql"
            THEN [ZeroColumn EXCEPT
                    !.Column = c.Column, !.Comment = Coalesce(c.Comment),
                    !.ColumnDefault = c.ColumnDefault, !.Extra = c.Extra,
                    !.IsNullable = c.IsNullable, !.DataType = c.DataType,
                    !.Type = c.Type]
            ELSE IF d = "postgresql"
            THEN [ZeroColumn EXCEPT
                    !.Column = c.Column, !.Comment = Coalesce(c.Comment),
                    !.ColumnDefault = c.ColumnDefault,
                    !.IsNullable = c.IsNullable, !.DataType = c.DataType]
            ELSE [ZeroColumn EXCEPT
                    !.Column = c.Column, !.ColumnDefault = c.ColumnDefault,
                    !.Extra = c.Extra, !.IsNullable = SqliteIsNullable(c),
                    !.Type = c.Type]]

\* a QueryColumns that looks at the table name only
QueryColumnsSkipsTableOnly(d, t) == t.Table = s_empty

\* QueryColumns returns before its query: MySQL and PostgreSQL when the
\* schema or the table name is empty, SQLite when the table name is empty
QueryColumnsSkips(d, t) ==
    IF d = "sqlite" THEN t.Table = s_empty
    ELSE t.Database = s_empty \/ t.Table = s_empty

\* QueryColumns: the columns it returns when no statement fails
QueryColumns(d, t, row) ==
    IF QueryColumnsSkips(d, t) THEN <<>> ELSE ScanColumns(d, row)

\* QueryColumns: the statements it sends for table i
QueryColumnsStmts(d, t, i) ==
    IF QueryColumnsSkips(d, t) THEN {} ELSE {Stmt("columns", i)}

\* strings.ReplaceAll over the tokens of a definition
ReplaceToken(text, old, new) ==
    [j \in 1..Len(text) |-> IF text[j] = old THEN new ELSE text[j]]

\* the loops that assign table.AutoIncrementColumn for every marked column:
\* the last marked column stays, the former value when none is marked
LastColumn(columns, marked, cur) ==
    LET hits == {j \in 1..Len(columns) : marked[j]}
    IN  IF hits = {} THEN cur
        ELSE columns[CHOOSE j \in hits : \A h \in hits : h <= j].Column

\* SchemaMysql.QueryTableDefineSql, before the query: the auto-increment column
MysqlAutoIncrement(t) ==
    LET isAuto == [j \in 1..Len(t.Columns) |-> t.Columns[j].Extra = s_auto_increment]
    IN  [t EXCEPT !.AutoIncrementColumn = LastColumn(t.Columns, isAuto, @)]

\* SchemaMysql.QueryTableDefineSql, after the query: the rewritten definition
MysqlDefined(row) ==
    ReplaceToken(ReplaceToken(row.Ddl, t_create_table, "CREATE TABLE IF NOT EXISTS"),
                 t_autoinc_n, "AUTO_INCREMENT=1")

Letters ==
    {"a", "b", "c", "d", "e", "f", "g", "h", "i", "j", "k", "l", "m", "n", "o", "p", "q",
     "r", "s", "t", "u", "v", "w", "x", "y", "z",
     "A", "B", "C", "D", "E", "F", "G", "H", "I", "J", "K", "L", "M", "N", "O", "P", "Q",
     "R", "S", "T", "U", "V", "W", "X", "Y", "Z"}
Digits == {"0", "1", "2", "3", "4", "5", "6", "7", "8", "9"}

\* pgsqlSeq.MatchString on the tokens of a default expression
pgsqlSeq(d) ==
    /\ d # NilStr
    /\ Len(d) >= 3
    /\ d[1] = t_nextval
    /\ d[Len(d)] = t_regclass
    /\ \A j \in 2..(Len(d) - 1) : d[j] \in Letters \cup Digits \cup {"_"}

\* strings.ReplaceAll(default, "\"", "")
StripQuotes(d) ==
    LET NotQuote(c) == c # t_quote
    IN  IF d = NilStr THEN d ELSE SelectSeq(d, NotQuote)

\* the sequence name a matching default expression captures
SeqName(d) == SubSeq(d, 2, Len(d) - 1)

\* SchemaPostgresql.QueryTableDefineSql, before the query: the loop over the
\* columns strips the quotes of every default expression and remembers the
\* CREATE SEQUENCE line and the column of the last sequence-backed default
RECURSIVE PgCreateSequence(_, _)
PgCreateSequence(columns, cur) ==
    IF columns = <<>> THEN cur
    ELSE PgCreateSequence(Tail(columns),
            IF pgsqlSeq(Head(columns).ColumnDefault)
            THEN <<"CREATE SEQUENCE IF NOT EXISTS ">>
                     \o SeqName(Head(columns).ColumnDefault) \o <<" START 1;", "\n">>
            ELSE cur)

PgScanDefaults(t) ==
    LET stripped == [j \in 1..Len(t.Columns) |->
                       [t.Columns[j] EXCEPT !.ColumnDefault = StripQuotes(@)]]
        isSeq == [j \in 1..Len(stripped) |-> pgsqlSeq(stripped[j].ColumnDefault)]
    IN  [t EXCEPT !.Columns = stripped,
                  !.AutoIncrementColumn = LastColumn(stripped, isSeq, @)]

\* SchemaPostgresql.QueryTableDefineSql, after the query
PgDefined(t, row) ==
    PgCreateSequence(t.Columns, <<>>)
    \o ReplaceToken(ReplaceToken(ReplaceToken(row.Ddl,
            t_create_table, "CREATE TABLE IF NOT EXISTS"),
            t_create_index, "CREATE INDEX IF NOT EXISTS"),
            t_create_unique, "CREATE UNIQUE INDEX IF NOT EXISTS")

\* ------------------------------------------------------------------------
\* QuerySchemas of MySQL and PostgreSQL: one goroutine per table
\* ------------------------------------------------------------------------

Concurrent == driver \in {"mysql", "postgresql"}

\* an error slot that every failing step overwrites
OnceDoOverwrite(cur, done, e) == e

\* once.Do(func() { errorQuery = err }): the value of errorQuery afterwards
OnceDo(cur, done, e) == IF done THEN cur ELSE e

\* a step of a task failed with error e: the statement is recorded as failed
\* and the error is handed to once.Do
Fails(e) ==
    /\ MayFail
    /\ failed' = failed \cup {e}
    /\ errorQuery' = OnceDo(errorQuery, onceDone, e)
    /\ onceDone' = TRUE
    /\ firstErr' = IF firstErr = NoErr THEN e ELSE firstErr

Succeeds == UNCHANGED <<failed, errorQuery, onceDone, firstErr>>

MainUnchanged ==
    UNCHANGED <<input, result, driver, cfg, db, pc, lists, tables, denyCalls, k, installed,
                dropIssued, retTables, err, tmp, outputCalls, stdout>>

\* a loop that stops launching tasks once an error was recorded
QuerySchemas_LaunchUnlessFailed ==
    /\ pc = "QuerySchemas"
    /\ Concurrent
    /\ k <= Len(tables)
    /\ IF errorQuery = NoErr
       THEN /\ wg' = wg + 1
            /\ task' = [task EXCEPT ![tables[k]] = "columns"]
       ELSE UNCHANGED <<wg, task>>
    /\ k' = k + 1
    /\ UNCHANGED <<stmts, input, result, driver, cfg, db, pc, lists, tables, tab, denyCalls, onceDone,
                   errorQuery, firstErr, failed, installed, dropIssued, retTables,
                   err, tmp, outputCalls, stdout>>

\* NewWay: db.SetMaxOpenConns(8), the only fixed size of the program
MaxOpenConns == 8

\* a loop that launches a task only while fewer than MaxOpenConns are in flight
QuerySchemas_LaunchPooled ==
    /\ pc = "QuerySchemas"
    /\ Concurrent
    /\ k <= Len(tables)
    /\ IF wg < MaxOpenConns
       THEN /\ wg' = wg + 1
            /\ task' = [task EXCEPT ![tables[k]] = "columns"]
       ELSE UNCHANGED <<wg, task>>
    /\ k' = k + 1
    /\ UNCHANGED <<stmts, input, result, driver, cfg, db, pc, lists, tables, tab, denyCalls,
                   onceDone, errorQuery, firstErr, failed, installed, dropIssued, retTables,
                   err, tmp, outputCalls, stdout>>

\* the loop of QuerySchemas: waitGroup.Add(1); go func(table) ...
QuerySchemas_Launch ==
    /\ pc = "QuerySchemas"
    /\ Concurrent
    /\ k <= Len(tables)
    /\ wg' = wg + 1
    /\ task' = [task EXCEPT ![tables[k]] = "columns"]
    /\ k' = k + 1
    /\ UNCHANGED <<stmts, input, result, driver, cfg, db, pc, lists, tables, tab, denyCalls, onceDone,
                   errorQuery, firstErr, failed, installed, dropIssued, retTables,
                   err, tmp, outputCalls, stdout>>

\* the table the loop variable of QuerySchemas points at
LoopTable == tables[IF k <= Len(tables) THEN k ELSE Len(tables)]

\* a task whose closure uses the loop variable instead of its own argument
Task_ColumnsCaptured(i) ==
    /\ Concurrent
    /\ task[i] = "columns"
    /\ \/ /\ Succeeds
          /\ tab' = [tab EXCEPT ![LoopTable].Columns =
                        QueryColumns(driver, tab[LoopTable], db[LoopTable])]
          /\ task' = [task EXCEPT ![i] = IF driver = "mysql" THEN "define" ELSE "comment"]
          /\ UNCHANGED wg
       \/ /\ ~QueryColumnsSkips(driver, tab[i])
          /\ Fails(<<"columns", i>>)
          /\ task' = [task EXCEPT ![i] = "done"]
          /\ wg' = wg - 1
          /\ UNCHANGED tab
    /\ stmts' = stmts \cup QueryColumnsStmts(driver, tab[LoopTable], i)
    /\ MainUnchanged

\* both adapters: columns, err := s.QueryColumns(...)
Task_Columns(i) ==
    /\ Concurrent
    /\ task[i] = "columns"
    /\ \/ /\ Succeeds
          /\ tab' = [tab EXCEPT ![i].Columns = QueryColumns(driver, tab[i], db[i])]
          /\ task' = [task EXCEPT ![i] = IF driver = "mysql" THEN "define" ELSE "comment"]
          /\ UNCHANGED wg
       \/ /\ ~QueryColumnsSkips(driver, tab[i])
          /\ Fails(<<"columns", i>>)
          /\ task' = [task EXCEPT ![i] = "done"]
          /\ wg' = wg - 1
          /\ UNCHANGED tab
    /\ stmts' = stmts \cup QueryColumnsStmts(driver, tab[i], i)
    /\ MainUnchanged

\* SchemaMysql: defined, err := s.QueryTableDefineSql(...)
Mysql_Define(i) ==
    /\ driver = "mysql"
    /\ task[i] = "define"
    /\ \/ /\ Succeeds
          /\ tab' = [tab EXCEPT ![i] =
                        [MysqlAutoIncrement(tab[i]) EXCEPT !.Defined = MysqlDefined(db[i])]]
       \/ /\ Fails(<<"define", i>>)
          /\ tab' = [tab EXCEPT ![i] = MysqlAutoIncrement(tab[i])]
    /\ task' = [task EXCEPT ![i] = "done"]
    /\ wg' = wg - 1
    /\ stmts' = stmts \cup {Stmt("define", i)}
    /\ MainUnchanged

\* a comment step whose error is not recorded
Pg_CommentIgnored(i) ==
    /\ driver = "postgresql"
    /\ task[i] = "comment"
    /\ \/ /\ Succeeds
          /\ tab' = [tab EXCEPT ![i].Comment =
                        IF db[i].Comment = NilStr THEN @ ELSE db[i].Comment]
       \/ /\ MayFail
          /\ failed' = failed \cup {<<"comment", i>>}
          /\ UNCHANGED <<errorQuery, onceDone, firstErr>>
          /\ tab' = [tab EXCEPT ![i].Comment = s_empty]
    /\ task' = [task EXCEPT ![i] = "define"]
    /\ UNCHANGED wg
    /\ stmts' = stmts \cup {Stmt("comment", i)}
    /\ MainUnchanged

\* SchemaPostgresql: table.Comment, err = s.queryTableComment(...); the task
\* goes on to the definition also when the comment query failed
Pg_Comment(i) ==
    /\ driver = "postgresql"
    /\ task[i] = "comment"
    /\ \/ /\ Succeeds
          /\ tab' = [tab EXCEPT ![i].Comment =
                        IF db[i].Comment = NilStr THEN @ ELSE db[i].Comment]
       \/ /\ Fails(<<"comment", i>>)
          /\ tab' = [tab EXCEPT ![i].Comment = s_empty]
    /\ task' = [task EXCEPT ![i] = "define"]
    /\ UNCHANGED wg
    /\ stmts' = stmts \cup {Stmt("comment", i)}
    /\ MainUnchanged

\* SchemaPostgresql: _, err = s.QueryTableDefineSql(...)
Pg_Define(i) ==
    /\ driver = "postgresql"
    /\ task[i] = "define"
    /\ \/ /\ Succeeds
          /\ tab' = [tab EXCEPT ![i] =
                        [PgScanDefaults(tab[i]) EXCEPT
                            !.Defined = PgDefined(PgScanDefaults(tab[i]), db[i])]]
       \/ /\ Fails(<<"define", i>>)
          /\ tab' = [tab EXCEPT ![i] = PgScanDefaults(tab[i])]
    /\ task' = [task EXCEPT ![i] = "done"]
    /\ wg' = wg - 1
    /\ stmts' = stmts \cup {Stmt("define", i)}
    /\ MainUnchanged

\* a join that does not wait for the tasks
WaitReturnsAtOnce == TRUE

\* waitGroup.Wait() returns
WaitReturns == wg = 0

\* a QuerySchemas that reports success whatever the tasks recorded
QuerySchemasReturnsNil(e) == NoErr

\* QuerySchemas: if errorQuery != nil { return errorQuery }; return nil
QuerySchemasReturns(e) == IF e # NoErr THEN e ELSE NoErr

\* QuerySchemas after the loop: waitGroup.Wait(), then the shared error is
\* returned; GetAllTables returns nil and the error, Run returns the error
QuerySchemas_Wait ==
    /\ pc = "QuerySchemas"
    /\ Concurrent
    /\ k > Len(tables)
    /\ WaitReturns
    /\ IF QuerySchemasReturns(errorQuery) # NoErr
       THEN /\ err' = QuerySchemasReturns(errorQuery)
            /\ pc' = ReturnPc
       ELSE /\ pc' = "PostProcess"
            /\ UNCHANGED err
    /\ UNCHANGED <<stmts, input, result, driver, cfg, db, lists, tables, tab, denyCalls, k, task, wg,
                   onceDone, errorQuery, firstErr, failed, installed, dropIssued,
                   retTables, tmp, outputCalls, stdout>>

\* ------------------------------------------------------------------------
\* QuerySchemas of SQLite: one table after the other
\* ------------------------------------------------------------------------

SqliteAutoIncrement(t, columns) ==
    LET auto == {j \in 1..Len(columns) : columns[j].Extra = s_auto_increment}
    IN  IF t.AutoIncrementColumn = s_empty /\ auto # {}
        THEN columns[CHOOSE j \in auto : \A h \in auto : j <= h].Column
        ELSE t.AutoIncrementColumn

\* a loop that records a failing column query and goes on to the next table
Sqlite_QuerySchemasGoesOn ==
    /\ pc = "QuerySchemas"
    /\ driver = "sqlite"
    /\ IF k > Len(tables)
       THEN /\ pc' = IF err = NoErr THEN "PostProcess" ELSE ReturnPc
            /\ UNCHANGED <<tab, k, err, failed, stmts>>
       ELSE \/ /\ tab' = [tab EXCEPT ![tables[k]] =
                     LET columns == QueryColumns(driver, tab[tables[k]], db[tables[k]])
                     IN  [tab[tables[k]] EXCEPT
                             !.AutoIncrementColumn =
                                 SqliteAutoIncrement(tab[tables[k]], columns),
                             !.Columns = columns]]
               /\ k' = k + 1
               /\ stmts' = stmts \cup QueryColumnsStmts(driver, tab[tables[k]], tables[k])
               /\ UNCHANGED <<pc, err, failed>>
            \/ /\ MayFail
               /\ ~QueryColumnsSkips(driver, tab[tables[k]])
               /\ err' = IF err = NoErr THEN <<"columns", tables[k]>> ELSE err
               /\ failed' = failed \cup {<<"columns", tables[k]>>}
               /\ stmts' = stmts \cup {Stmt("columns", tables[k])}
               /\ k' = k + 1
               /\ UNCHANGED <<tab, pc>>
    /\ UNCHANGED <<input, result, driver, cfg, db, lists, tables, denyCalls, task, wg, onceDone,
                   errorQuery, firstErr, installed, dropIssued, retTables, tmp,
                   outputCalls, stdout>>

Sqlite_QuerySchemas ==
    /\ pc = "QuerySchemas"
    /\ driver = "sqlite"
    /\ IF k > Len(tables)
       THEN /\ pc' = "PostProcess"
            /\ UNCHANGED <<tab, k, err, failed, stmts>>
       ELSE \/ /\ tab' = [tab EXCEPT ![tables[k]] =
                     LET columns == QueryColumns(driver, tab[tables[k]], db[tables[k]])
                     IN  [tab[tables[k]] EXCEPT
                             !.AutoIncrementColumn =
                                 SqliteAutoIncrement(tab[tables[k]], columns),
                             !.Columns = columns]]
               /\ k' = k + 1
               /\ stmts' = stmts \cup QueryColumnsStmts(driver, tab[tables[k]], tables[k])
               /\ UNCHANGED <<pc, err, failed>>
            \/ /\ MayFail
               /\ ~QueryColumnsSkips(driver, tab[tables[k]])
               /\ err' = <<"columns", tables[k]>>
               /\ failed' = failed \cup {<<"columns", tables[k]>>}
               /\ stmts' = stmts \cup {Stmt("columns", tables[k])}
               /\ pc' = ReturnPc
               /\ UNCHANGED <<tab, k>>
    /\ UNCHANGED <<input, result, driver, cfg, db, lists, tables, denyCalls, task, wg, onceDone,
                   errorQuery, firstErr, installed, dropIssued, retTables, tmp,
                   outputCalls, stdout>>

\* ------------------------------------------------------------------------
\* Identifier helpers: Pascal, Camel, Underline
\* ------------------------------------------------------------------------

UpperCase ==
    <<"A", "B", "C", "D", "E", "F", "G", "H", "I", "J", "K", "L", "M", "N", "O", "P",
     "Q", "R", "S", "T", "U", "V", "W", "X", "Y", "Z">>

LowerCase ==
    <<"a", "b", "c", "d", "e", "f", "g", "h", "i", "j", "k", "l", "m", "n", "o", "p",
     "q", "r", "s", "t", "u", "v", "w", "x", "y", "z">>

IsUpper(c) == \E n \in DOMAIN UpperCase : UpperCase[n] = c
IsLower(c) == \E n \in DOMAIN LowerCase : LowerCase[n] = c

\* c + 32 for an upper-case letter
ToLowerChar(c) ==
    IF IsUpper(c) THEN LowerCase[CHOOSE n \in DOMAIN UpperCase : UpperCase[n] = c] ELSE c

\* c - 32 for a lower-case letter
ToUpperChar(c) ==
    IF IsLower(c) THEN UpperCase[CHOOSE n \in DOMAIN LowerCase : LowerCase[n] = c] ELSE c

\* strings.ToLower
ToLower(str) == [n \in 1..Len(str) |-> ToLowerChar(str[n])]

\* the loop of Pascal over the rest of the string
RECURSIVE PascalLoop(_, _)
PascalLoop(rest, next2upper) ==
    IF rest = <<>> THEN <<>>
    ELSE IF Head(rest) = "_" THEN PascalLoop(Tail(rest), TRUE)
    ELSE <<IF next2upper /\ IsLower(Head(rest)) THEN ToUpperChar(Head(rest)) ELSE Head(rest)>>
         \o PascalLoop(Tail(rest), FALSE)

\* a Pascal that raises the first letter only and drops the underscores
PascalFirstOnly(str) ==
    LET NotUnderscore(c) == c # "_"
        kept == SelectSeq(str, NotUnderscore)
    IN  IF kept = <<>> THEN <<>> ELSE <<ToUpperChar(Head(kept))>> \o Tail(kept)

\* a Pascal whose flag is never reset: every lower-case letter is raised
PascalRaiseAll(str) ==
    LET NotUnderscore(c) == c # "_"
        kept == SelectSeq(str, NotUnderscore)
    IN  [n \in 1..Len(kept) |-> ToUpperChar(kept[n])]

Pascal(str) == IF str = <<>> THEN <<>> ELSE PascalLoop(str, TRUE)

\* a run-time panic: slice bounds out of range
Panic == <<"<panic>">>

\* Camel: strings.ToLower(str[0:1]) + str[1:] of the Pascal form, which
\* panics when the Pascal form is empty
Camel(str) ==
    IF str = <<>> THEN <<>>
    ELSE IF Pascal(str) = <<>> THEN Panic
    ELSE <<ToLowerChar(Head(Pascal(str)))>> \o Tail(Pascal(str))

\* the loop of Underline from index i on
RECURSIVE UnderlineLoop(_, _)
UnderlineLoop(str, i) ==
    IF i > Len(str) THEN <<>>
    ELSE (IF IsUpper(str[i])
          THEN (IF i > 1 THEN <<"_">> ELSE <<>>) \o <<ToLowerChar(str[i])>>
          ELSE <<str[i]>>)
         \o UnderlineLoop(str, i + 1)

\* an Underline that lower-cases without inserting an underscore
UnderlineNoInsert(str) == ToLower(str)

Underline(str) == IF str = <<>> THEN <<>> ELSE UnderlineLoop(str, 1)

\* ------------------------------------------------------------------------
\* Column.goType and Column.init
\* ------------------------------------------------------------------------

\* the keywords of the switch of goType
kw_tinyint == <<"t", "i", "n", "y", "i", "n", "t">>
kw_smallint == <<"s", "m", "a", "l", "l", "i", "n", "t">>
kw_smallserial == <<"s", "m", "a", "l", "l", "s", "e", "r", "i", "a", "l">>
kw_integer == <<"i", "n", "t", "e", "g", "e", "r">>
kw_serial == <<"s", "e", "r", "i", "a", "l">>
kw_int == <<"i", "n", "t">>
kw_bigint == <<"b", "i", "g", "i", "n", "t">>
kw_bigserial == <<"b", "i", "g", "s", "e", "r", "i", "a", "l">>
kw_decimal == <<"d", "e", "c", "i", "m", "a", "l">>
kw_numeric == <<"n", "u", "m", "e", "r", "i", "c">>
kw_real == <<"r", "e", "a", "l">>
kw_double_precision == <<"d", "o", "u", "b", "l", "e", " ", "p", "r", "e", "c", "i", "s", "i", "o", "n">>
kw_double == <<"d", "o", "u", "b", "l", "e">>
kw_float == <<"f", "l", "o", "a", "t">>
kw_char == <<"c", "h", "a", "r">>
kw_character == <<"c", "h", "a", "r", "a", "c", "t", "e", "r">>
kw_character_varying == <<"c", "h", "a", "r", "a", "c", "t", "e", "r", " ", "v", "a", "r", "y", "i", "n", "g">>
kw_text == <<"t", "e", "x", "t">>
kw_varchar == <<"v", "a", "r", "c", "h", "a", "r">>
kw_enum == <<"e", "n", "u", "m">>
kw_mediumtext == <<"m", "e", "d", "i", "u", "m", "t", "e", "x", "t">>
kw_longtext == <<"l", "o", "n", "g", "t", "e", "x", "t">>
kw_bool == <<"b", "o", "o", "l">>
kw_boolean == <<"b", "o", "o", "l", "e", "a", "n">>
kw_binary == <<"b", "i", "n", "a", "r", "y">>
kw_varbinary == <<"v", "a", "r", "b", "i", "n", "a", "r", "y">>
kw_tinyblob == <<"t", "i", "n", "y", "b", "l", "o", "b">>
kw_mediumblob == <<"m", "e", "d", "i", "u", "m", "b", "l", "o", "b">>
kw_longblob == <<"l", "o", "n", "g", "b", "l", "o", "b">>
kw_blob == <<"b", "l", "o", "b">>
kw_bytea == <<"b", "y", "t", "e", "a">>
kw_no == <<"n", "o">>

\* the Go types goType resolves to
go_int8 == <<"i", "n", "t", "8">>
go_int16 == <<"i", "n", "t", "1", "6">>
go_int == <<"i", "n", "t">>
go_int64 == <<"i", "n", "t", "6", "4">>
go_float64 == <<"f", "l", "o", "a", "t", "6", "4">>
go_string == <<"s", "t", "r", "i", "n", "g">>
go_bool == <<"b", "o", "o", "l">>
go_bytes == <<"[", "]", "b", "y", "t", "e">>

\* goType: nullable unless IsNullable is "no" in any letter case
Nullable(c) == ~(c.IsNullable # NilStr /\ ToLower(c.IsNullable) = kw_no)

\* a keyword selection that compares DataType and Type as they are
DataTypeOfVerbatim(c) ==
    LET datatype == IF c.DataType # NilStr THEN c.DataType ELSE <<>>
    IN  IF datatype = <<>> /\ c.Type # NilStr /\ c.Type # <<>>
        THEN c.Type ELSE datatype

\* goType: the lower-cased DataType, or the lower-cased Type when the
\* DataType is nil or empty
DataTypeOf(c) ==
    LET datatype == IF c.DataType # NilStr THEN ToLower(c.DataType) ELSE <<>>
    IN  IF datatype = <<>> /\ c.Type # NilStr /\ c.Type # <<>>
        THEN ToLower(c.Type) ELSE datatype

\* goType: the switch over the keyword
TypeSwitch(datatype) ==
    CASE datatype \in {kw_tinyint} -> go_int8
      [] datatype \in {kw_smallint, kw_smallserial} -> go_int16
      [] datatype \in {kw_integer, kw_serial, kw_int} -> go_int
      [] datatype \in {kw_bigint, kw_bigserial} -> go_int64
      [] datatype \in {kw_decimal, kw_numeric, kw_real, kw_double_precision, kw_double,
                       kw_float} -> go_float64
      [] datatype \in {kw_char, kw_character, kw_character_varying, kw_text, kw_varchar,
                       kw_enum, kw_mediumtext, kw_longtext} -> go_string
      [] datatype \in {kw_bool, kw_boolean} -> go_bool
      [] datatype \in {kw_binary, kw_varbinary, kw_tinyblob, kw_mediumblob, kw_longblob,
                       kw_blob, kw_bytea} -> go_bytes
      [] OTHER -> go_string

\* a goType that wraps every nullable type
goTypeWrapAll(c) ==
    IF Nullable(c) THEN <<"*">> \o TypeSwitch(DataTypeOf(c)) ELSE TypeSwitch(DataTypeOf(c))

\* Column.goType
goType(c) ==
    IF Nullable(c) /\ TypeSwitch(DataTypeOf(c)) # go_bytes
    THEN <<"*">> \o TypeSwitch(DataTypeOf(c))
    ELSE TypeSwitch(DataTypeOf(c))

\* ------------------------------------------------------------------------
\* GetAllTables: post-processing; App.Run: backfill, output, return
\* ------------------------------------------------------------------------

\* GetAllTables: if t.Comment == "" { t.Comment = t.Table }
DefaultComment(t) == IF t.Comment = s_empty THEN [t EXCEPT !.Comment = t.Table] ELSE t

\* strings.TrimPrefix
TrimPrefix(str, prefix) ==
    IF Len(prefix) <= Len(str) /\ SubSeq(str, 1, Len(prefix)) = prefix
    THEN SubSeq(str, Len(prefix) + 1, Len(str))
    ELSE str

\* time.Now().Unix() as printed by fmt.Sprintf
t_timestamp == "<unix time>"

\* GetAllTables: the Go type name of a table that has none yet
TableGoTypeName(c, t) ==
    IF t.TableGoTypeName # s_empty THEN t
    ELSE [t EXCEPT
            !.TableGoTypeName = Pascal(TrimPrefix(t.Table, c.TablePrefix)),
            !.TableGoTypeNameTimestamp =
                Pascal(TrimPrefix(t.Table, c.TablePrefix)) \o <<t_timestamp>>]

\* Column.init panics in Camel
InitPanics(c) == c.ColumnCamel = s_empty /\ Camel(c.Column) = Panic

\* Column.init: the names and the Go type of a column that has no
\* ColumnCamel yet
Column_init(c) ==
    IF c.ColumnCamel # s_empty THEN c
    ELSE [c EXCEPT
            !.ColumnCamel = Camel(c.Column),
            !.ColumnPascal = IF @ = s_empty THEN Pascal(c.Column) ELSE @,
            !.ColumnUnderline = IF @ = s_empty THEN Underline(c.Column) ELSE @,
            !.GoType = goType(c)]

\* GetAllTables: the loop over the tables after QuerySchemas
PostProcessTable(c, t) ==
    [TableGoTypeName(c, DefaultComment(t)) EXCEPT
        !.Columns = [j \in 1..Len(t.Columns) |-> Column_init(t.Columns[j])]]

\* the loop panics in the init of a column: Run unwinds through its deferred
\* call and the process ends
GetAllTables_PostProcess ==
    /\ pc = "PostProcess"
    /\ IF \E i \in Range(tables) : \E j \in 1..Len(tab[i].Columns) :
             InitPanics(tab[i].Columns[j])
       THEN /\ err' = <<"panic", 0>>
            /\ pc' = IF installed THEN "Defer" ELSE "Crash"
            /\ UNCHANGED <<tab, retTables>>
       ELSE /\ tab' = [i \in DOMAIN tab |->
                          IF i \in Range(tables) THEN PostProcessTable(cfg, tab[i])
                          ELSE tab[i]]
            /\ retTables' = tables
            /\ pc' = "Backfill"
            /\ UNCHANGED err
    /\ UNCHANGED <<stmts, input, result, driver, cfg, db, lists, tables, denyCalls, k, task,
                   wg, onceDone, errorQuery, firstErr, failed, installed, dropIssued, tmp,
                   outputCalls, stdout>>

\* a backfill that replaces every comment the configuration has a text for
BackfillAlways(cur, name, fallback) ==
    IF fallback # s_empty THEN fallback ELSE cur

\* a backfill that fills empty comments only
BackfillEmptyOnly(cur, name, fallback) ==
    IF fallback # s_empty /\ cur = s_empty THEN fallback ELSE cur

\* Run: the comment of a table or column after the backfill with a
\* configured text
Backfill(cur, name, fallback) ==
    IF fallback # s_empty /\ (cur = s_empty \/ cur = name) THEN fallback ELSE cur

\* Run: the backfill of one table and of its columns
BackfillTable(c, t) ==
    IF t.Table \in DOMAIN c.Comments
    THEN LET va == c.Comments[t.Table]
         IN  [t EXCEPT
                !.Comment = Backfill(@, t.Table, va.Comment),
                !.Columns = [j \in 1..Len(t.Columns) |->
                    IF t.Columns[j].Column \in DOMAIN va.Columns
                    THEN [t.Columns[j] EXCEPT
                            !.Comment = Backfill(@, t.Columns[j].Column,
                                                 va.Columns[t.Columns[j].Column])]
                    ELSE t.Columns[j]]]
    ELSE t

\* a collection that keeps the last occurrence of a name instead of the first
RECURSIVE DedupKeepLast(_, _)
DedupKeepLast(names, seen) ==
    IF names = <<>> THEN <<>>
    ELSE IF Head(names) \in Range(Tail(names)) THEN DedupKeepLast(Tail(names), seen)
    ELSE <<Head(names)>> \o DedupKeepLast(Tail(names), seen)

\* Run: the column names of the tables, each once, in first-seen order
RECURSIVE Dedup(_, _)
Dedup(names, seen) ==
    IF names = <<>> THEN <<>>
    ELSE IF Head(names) \in seen THEN Dedup(Tail(names), seen)
    ELSE <<Head(names)>> \o Dedup(Tail(names), seen \cup {Head(names)})

RECURSIVE ColumnNames(_, _)
ColumnNames(ts, objs) ==
    IF ts = <<>> THEN <<>>
    ELSE [j \in 1..Len(objs[Head(ts)].Columns) |-> objs[Head(ts)].Columns[j].Column]
         \o ColumnNames(Tail(ts), objs)

Run_Backfill ==
    /\ pc = "Backfill"
    /\ tab' = [i \in DOMAIN tab |->
                  IF i \in Range(retTables) THEN BackfillTable(cfg, tab[i]) ELSE tab[i]]
    /\ tmp' = [Tables |-> retTables,
               AllTableColumns |-> Dedup(ColumnNames(retTables, tab), {}),
               set |-> TRUE]
    /\ pc' = "Output"
    /\ UNCHANGED <<stmts, input, result, driver, cfg, db, lists, tables, denyCalls, k, task, wg, onceDone,
                   errorQuery, firstErr, failed, installed, dropIssued, retTables, err,
                   outputCalls, stdout>>

\* Run: content, err = output(ctx, tmp)
Run_Output ==
    /\ pc = "Output"
    /\ outputCalls' = outputCalls + 1
    /\ \/ UNCHANGED <<err, failed>>
       \/ /\ MayFail
          /\ err' = <<"output", 0>>
          /\ failed' = failed \cup {<<"output", 0>>}
    /\ pc' = ReturnPc
    /\ UNCHANGED <<stmts, input, result, driver, cfg, db, lists, tables, tab, denyCalls, k, task, wg,
                   onceDone, errorQuery, firstErr, installed, dropIssued, retTables,
                   tmp, stdout>>

\* Run: defer func() { _, _ = s.way.Database().Exec(pgsqlFuncDrop) }()
Run_Defer ==
    /\ pc = "Defer"
    /\ dropIssued' = TRUE
    /\ \/ UNCHANGED failed
       \/ /\ MayFail
          /\ failed' = failed \cup {<<"drop", 0>>}
    /\ stmts' = stmts \cup {Stmt("drop", 0)}
    /\ pc' = IF err = <<"panic", 0>> THEN "Crash" ELSE "Start"
    /\ UNCHANGED <<input, result, driver, cfg, db, lists, tables, tab, denyCalls, k, task, wg,
                   onceDone, errorQuery, firstErr, installed, retTables, err, tmp,
                   outputCalls, stdout>>

\* start: output, err := cli.Run(...); the output is written unless Run failed
Start_Write ==
    /\ pc = "Start"
    /\ stdout' = IF err # NoErr THEN stdout ELSE tmp
    /\ pc' = "Exit"
    /\ UNCHANGED <<stmts, input, result, driver, cfg, db, lists, tables, tab, denyCalls, k, task, wg,
                   onceDone, errorQuery, firstErr, failed, installed, dropIssued,
                   retTables, err, tmp, outputCalls>>

\* ------------------------------------------------------------------------
\* Specifications
\* ------------------------------------------------------------------------

Next ==
    \/ Run_Install
    \/ Run_Enter
    \/ GetAllTables_QueryTables
    \/ GetAllTables_Filter
    \/ QuerySchemas_Launch
    \/ \E i \in 1..Len(db) : Task_Columns(i)
    \/ \E i \in 1..Len(db) : Mysql_Define(i)
    \/ \E i \in 1..Len(db) : Pg_Comment(i)
    \/ \E i \in 1..Len(db) : Pg_Define(i)
    \/ QuerySchemas_Wait
    \/ Sqlite_QuerySchemas
    \/ GetAllTables_PostProcess
    \/ Run_Backfill
    \/ Run_Output
    \/ Run_Defer
    \/ Start_Write

Spec == Init /\ [][Next]_vars

\* the listing and the filter of GetAllTables on the filter catalog
NextFilter ==
    \/ Run_Install
    \/ Run_Enter
    \/ GetAllTables_QueryTables
    \/ GetAllTables_Filter

SpecFilter == InitFilter /\ [][NextFilter]_vars

\* ------------------------------------------------------------------------
\* The launch loop of QuerySchemas on more tables than open connections
\* ------------------------------------------------------------------------

\* a database of MaxOpenConns + 1 tables t, tt, ttt, ... without columns
PoolCatalog ==
    [i \in 1..(MaxOpenConns + 1) |-> DbTable([j \in 1..i |-> "t"], NilStr, <<>>)]

InitPool ==
    /\ InitRun({"mysql", "postgresql"}, {NewConfig(s_empty, s_empty, EmptyMap)},
               PoolCatalog)
    /\ input = <<>>
    /\ result = <<>>

\* Run up to the launch loop and the column query of every task
NextPool ==
    \/ Run_Install
    \/ Run_Enter
    \/ GetAllTables_QueryTables
    \/ GetAllTables_Filter
    \/ QuerySchemas_Launch
    \/ \E i \in 1..Len(db) : Task_Columns(i)

SpecPool == InitPool /\ [][NextPool]_vars

\* ------------------------------------------------------------------------
\* The identifier helpers called on their own
\* ------------------------------------------------------------------------

\* a function that was not called yet
NoResult == <<"<unset>">>

s_user_name == <<"u", "s", "e", "r", "_", "n", "a", "m", "e">>
s_UserName == <<"U", "s", "e", "r", "N", "a", "m", "e">>
s_userName == <<"u", "s", "e", "r", "N", "a", "m", "e">>
s_myID == <<"m", "y", "I", "D">>
s_MyID == <<"M", "y", "I", "D">>
s_User_Name == <<"U", "s", "e", "r", "_", "N", "a", "m", "e">>
s_HTTPServer == <<"H", "T", "T", "P", "S", "e", "r", "v", "e", "r">>
s_h_t_t_p_server ==
    <<"h", "_", "t", "_", "t", "_", "p", "_", "s", "e", "r", "v", "e", "r">>

\* a lower-case letter, an upper-case letter, the underscore and a digit
IdentChars == {"a", "N", "_", "1"}

Identifiers ==
    UNION {[1..n -> IdentChars] : n \in 0..MaxLen}
    \cup {s_user_name, s_myID, s_User_Name, s_HTTPServer}

InitIdent ==
    /\ InitRun({"mysql"}, {NewConfig(s_empty, s_empty, EmptyMap)}, <<>>)
    /\ input \in Identifiers
    /\ result = [Pascal |-> NoResult, Camel |-> NoResult, Underline |-> NoResult,
                 RoundTrip |-> NoResult, Back |-> NoResult]

Call_Pascal ==
    /\ result.Pascal = NoResult
    /\ result' = [result EXCEPT !.Pascal = Pascal(input)]
    /\ UNCHANGED <<input, runVars>>

Call_Camel ==
    /\ result.Camel = NoResult
    /\ result' = [result EXCEPT !.Camel = Camel(input)]
    /\ UNCHANGED <<input, runVars>>

Call_Underline ==
    /\ result.Underline = NoResult
    /\ result' = [result EXCEPT !.Underline = Underline(input)]
    /\ UNCHANGED <<input, runVars>>

\* Pascal(Underline(Pascal(input)))
Call_RoundTrip ==
    /\ result.RoundTrip = NoResult
    /\ result' = [result EXCEPT !.RoundTrip = Pascal(Underline(Pascal(input)))]
    /\ UNCHANGED <<input, runVars>>

\* Pascal(Underline(input))
Call_Back ==
    /\ result.Back = NoResult
    /\ result' = [result EXCEPT !.Back = Pascal(Underline(input))]
    /\ UNCHANGED <<input, runVars>>

NextIdent ==
    \/ Call_Back
    \/ Call_Pascal
    \/ Call_Camel
    \/ Call_Underline
    \/ Call_RoundTrip

SpecIdent == InitIdent /\ [][NextIdent]_vars

\* ------------------------------------------------------------------------
\* goType called on its own
\* ------------------------------------------------------------------------

Keywords ==
    {kw_tinyint, kw_smallint, kw_smallserial, kw_integer, kw_serial, kw_int, kw_bigint,
     kw_bigserial, kw_decimal, kw_numeric, kw_real, kw_double_precision, kw_double,
     kw_float, kw_char, kw_character, kw_character_varying, kw_text, kw_varchar, kw_enum,
     kw_mediumtext, kw_longtext, kw_bool, kw_boolean, kw_binary, kw_varbinary,
     kw_tinyblob, kw_mediumblob, kw_longblob, kw_blob, kw_bytea}

\* strings.ToUpper
ToUpper(str) == [n \in 1..Len(str) |-> ToUpperChar(str[n])]

kw_json == <<"j", "s", "o", "n">>
kw_Int == <<"I", "n", "t">>
kw_int_11 == <<"i", "n", "t", "(", "1", "1", ")">>

\* the values of IS_NULLABLE, DATA_TYPE and the declared type goType is
\* called with; NilStr is a nil pointer
NullableChoices ==
    {NilStr, s_empty, <<"N", "O">>, <<"n", "o">>, <<"N", "o">>, <<"n", "O">>, <<"Y", "E", "S">>, <<"y", "e", "s">>}

DataTypeChoices ==
    {NilStr, s_empty, kw_json, kw_Int} \cup Keywords \cup {ToUpper(w) : w \in Keywords}

TypeChoices == {NilStr, s_empty, kw_int_11, kw_blob, ToUpper(kw_integer), ToUpper(kw_bytea)}

InitType ==
    /\ InitRun({"mysql"}, {NewConfig(s_empty, s_empty, EmptyMap)}, <<>>)
    /\ input \in [IsNullable : NullableChoices, DataType : DataTypeChoices,
                   Type : TypeChoices]
    /\ result = NoResult

Call_goType ==
    /\ result = NoResult
    /\ result' = goType(input)
    /\ UNCHANGED <<input, runVars>>

NextType ==
    \/ Call_goType

SpecType == InitType /\ [][NextType]_vars

\* ------------------------------------------------------------------------
\* The adapter methods called on their own
\* ------------------------------------------------------------------------

\* default expressions of a column: none, a literal, a sequence, a sequence
\* with a quoted name, a second sequence, a sequence with a qualified name,
\* a text with double quotes in it
d_literal == <<"x">>
d_seq == <<t_nextval>> \o s_seq \o <<t_regclass>>
d_seq_quoted == <<t_nextval, t_quote>> \o s_seq \o <<t_quote, t_regclass>>
d_seq2 == <<t_nextval, "s", "2", t_regclass>>
d_seq_qualified == <<t_nextval, "a", ".", "s", t_regclass>>
d_text_quoted == <<"'", t_quote, "x", t_quote, "'">>

DefaultChoices ==
    {NilStr, d_literal, d_seq, d_seq_quoted, d_seq2, d_seq_qualified, d_text_quoted}

AdapterColumnNames == <<s_id, s_name, <<"c">>, <<"d">> >>

\* tables of one to MaxColumns columns with every choice of defaults
AdapterRows ==
    {DbTable(s_users, NilStr,
             [j \in 1..n |-> DbColumn(AdapterColumnNames[j], NilStr, f[j], NilStr)]) :
        n \in 1..MaxColumns, f \in [1..MaxColumns -> DefaultChoices]}

InitAdapter ==
    /\ InitRun(Drivers, {NewConfig(s_empty, s_empty, EmptyMap)}, <<>>)
    /\ input \in [schema : {s_empty, s_db}, table : {s_empty, s_users}, row : AdapterRows]
    /\ result = [called |-> {}, columns |-> <<>>, table |-> ZeroTable,
                 defined |-> s_empty, err |-> NoErr]

\* the Table object the adapter methods are called for
AdapterTable == [ZeroTable EXCEPT !.Database = input.schema, !.Table = input.table]

\* columns, err := s.QueryColumns(ctx, cfg, schema, table)
Call_QueryColumns ==
    /\ result.called = {}
    /\ \/ result' = [result EXCEPT
                        !.called = {"QueryColumns"},
                        !.columns = QueryColumns(driver, AdapterTable, input.row)]
       \/ /\ ~QueryColumnsSkips(driver, AdapterTable)
          /\ result' = [result EXCEPT
                           !.called = {"QueryColumns"}, !.err = <<"columns", 0>>]
    /\ stmts' = stmts \cup QueryColumnsStmts(driver, AdapterTable, 0)
    /\ UNCHANGED <<input, progVars>>

\* SchemaPostgresql: defined, err := s.QueryTableDefineSql(ctx, cfg, table)
Call_PgQueryTableDefineSql ==
    /\ driver = "postgresql"
    /\ result.called = {"QueryColumns"}
    /\ result.err = NoErr
    /\ LET table == PgScanDefaults([AdapterTable EXCEPT !.Columns = result.columns])
       IN  \/ result' = [result EXCEPT
                           !.called = @ \cup {"QueryTableDefineSql"},
                           !.table = [table EXCEPT !.Defined = PgDefined(table, input.row)],
                           !.defined = PgDefined(table, input.row)]
           \/ result' = [result EXCEPT
                           !.called = @ \cup {"QueryTableDefineSql"},
                           !.table = table,
                           !.err = <<"define", 0>>]
    /\ stmts' = stmts \cup {Stmt("define", 0)}
    /\ UNCHANGED <<input, progVars>>

NextAdapter ==
    \/ Call_QueryColumns
    \/ Call_PgQueryTableDefineSql

SpecAdapter == InitAdapter /\ [][NextAdapter]_vars

\* ------------------------------------------------------------------------
\* Properties of the table filter
\* ------------------------------------------------------------------------

\* the filter loop of GetAllTables has run
Filtered == pc = "QuerySchemas" /\ k = 1

ListedNames == {tab[i].Table : i \in Range(lists)}
KeptNames == {tab[i].Table : i \in Range(tables)}

\* the deny-list as configured: literals and patterns
DenyLiterals == IF cfg.DisableTableMap.isNil THEN {} ELSE cfg.DisableTableMap.keys
DenyPatterns == Range(cfg.DisableTableRegexp)
MatchesDeny(name) ==
    name \in DenyLiterals \/ \E re \in DenyPatterns : MatchString(re, name)

\* C1: with an empty allow-list a listed table is dropped if and only if its
\* name equals a deny-list literal or matches a deny-list pattern, for every
\* deny-list, also one that holds both literals and patterns
C1_DroppedIffDenied ==
    (Filtered /\ Len(cfg.OnlyTable) = 0) =>
        \A n \in ListedNames : (n \notin KeptNames) <=> MatchesDeny(n)

\* C2 as claimed: whenever OnlyTable is non-empty the kept tables are exactly
\* the listed tables whose name is an entry of OnlyTable, and the deny-list
\* is never evaluated
C2_AsClaimed ==
    (Filtered /\ Len(cfg.OnlyTable) > 0) =>
        /\ KeptNames = {n \in ListedNames : n \in Range(cfg.OnlyTable)}
        /\ denyCalls = {}

\* C2: whenever OnlyTable holds an entry that is not blank, the kept tables
\* are exactly the listed tables whose name equals a trimmed entry of
\* OnlyTable, whatever the deny-list says, and the deny-list is never
\* evaluated
C2_AllowListPrecedence ==
    (Filtered /\ \E e \in Range(cfg.OnlyTable) : TrimSpace(e) # s_empty) =>
        /\ \A n \in ListedNames :
              n \in KeptNames <=> \E e \in Range(cfg.OnlyTable) : n = TrimSpace(e)
        /\ denyCalls = {}

\* an allow-listed table that the deny-list matches was kept without the
\* deny-list being consulted
C2_Witness ==
    /\ Filtered
    /\ \E n \in KeptNames : MatchesDeny(n) /\ n \in Range(cfg.OnlyTable)
    /\ denyCalls = {}

\* ------------------------------------------------------------------------
\* Properties of the concurrent QuerySchemas
\* ------------------------------------------------------------------------

\* QuerySchemas has returned to GetAllTables
QuerySchemasReturned ==
    pc \in {"PostProcess", "Backfill", "Output", "Defer", "Start", "Exit"}

\* the steps of the enrichment of table i that failed
TaskFailures(i) == {e \in failed : e[2] = i /\ e[1] \in {"columns", "comment", "define"}}
AllTaskFailures == UNION {TaskFailures(i) : i \in DOMAIN tab}
FailedTables == {i \in DOMAIN tab : TaskFailures(i) # {}}

\* the columns and the definition of table i are populated
FullyEnriched(i) ==
    /\ Len(tab[i].Columns) = Len(db[i].Columns)
    /\ Len(db[i].Columns) > 0
    /\ \A j \in 1..Len(db[i].Columns) : tab[i].Columns[j].Column = db[i].Columns[j].Column
    /\ tab[i].Defined # <<>>

\* C3: when the MySQL or PostgreSQL QuerySchemas has returned, one task was
\* launched for every table, every task has finished, also after an early
\* failure, and no task was cancelled: a task without a failing step of its
\* own has run to its end
C3_ReturnsAfterAllTasks ==
    (Concurrent /\ QuerySchemasReturned) =>
        /\ wg = 0
        /\ \A i \in Range(tables) :
              /\ task[i] = "done"
              /\ TaskFailures(i) = {} => FullyEnriched(i)

\* QuerySchemas returned from a batch of several tables in which the first
\* task failed at its first step
C3_Witness ==
    /\ Concurrent /\ QuerySchemasReturned
    /\ Len(tables) >= 3
    /\ firstErr = <<"columns", tables[1]>>
    /\ \A i \in Range(tables) : task[i] = "done"
    /\ \E i \in Range(tables) : FullyEnriched(i)

\* C4: the shared error is written at most once and is the error that was
\* handed to once.Do first; QuerySchemas returns it, and returns no error
\* only if no step of any task failed
C4_FirstErrorWins ==
    /\ [](/\ errorQuery = firstErr
          /\ (Concurrent /\ QuerySchemasReturned) =>
                /\ (AllTaskFailures # {} => err = firstErr /\ err # NoErr)
                /\ (AllTaskFailures = {} /\ failed \cap {<<"install", 0>>, <<"list", 0>>} = {}
                        => errorQuery = NoErr))
    /\ [][errorQuery # NoErr => errorQuery' = errorQuery]_vars

\* two steps of different tasks failed, or two steps of one task
C4_Witness ==
    /\ Concurrent /\ QuerySchemasReturned
    /\ Cardinality(AllTaskFailures) = 2
    /\ err = firstErr
    /\ \E e \in AllTaskFailures : e # err

\* C5: when the enrichment of exactly one table of a concurrent batch has
\* failed, QuerySchemas returns one error, an error of that table, and every
\* other table is fully enriched when it returns
C5_OthersFullyEnriched ==
    (Concurrent /\ QuerySchemasReturned /\ Cardinality(FailedTables) = 1) =>
        /\ err \in AllTaskFailures
        /\ \A i \in Range(tables) \ FailedTables : FullyEnriched(i)

\* one of three tables failed and the two others are enriched
C5_Witness ==
    /\ Concurrent /\ QuerySchemasReturned
    /\ Cardinality(FailedTables) = 1
    /\ Len(tables) = 3
    /\ Cardinality({i \in Range(tables) : FullyEnriched(i)}) = 2

\* the position of x in q
Pos(q, x) == CHOOSE j \in 1..Len(q) : q[j] = x

\* a is a subsequence of b: the elements of a occur in b, in the same order,
\* each once
IsSubsequence(a, b) ==
    /\ \A j \in 1..Len(a) : a[j] \in Range(b)
    /\ \A j, h \in 1..Len(a) : j < h => Pos(b, a[j]) < Pos(b, a[h])

\* C6: the tables GetAllTables returns, and the tables handed to the
\* renderer, are a subsequence of the tables QueryTables returned, in the
\* same relative order and without duplicates
C6_OrderPreserved ==
    /\ IsSubsequence(tables, lists)
    /\ retTables # NilTables => retTables = tables
    /\ tmp.set => tmp.Tables = tables

\* GetAllTables returned several tables after the filter dropped one and
\* concurrent tasks enriched them
C6_Witness ==
    /\ Concurrent
    /\ retTables # NilTables
    /\ Len(retTables) >= 2
    /\ Len(retTables) < Len(lists)

\* ------------------------------------------------------------------------
\* Properties of the error paths of App.Run
\* ------------------------------------------------------------------------

\* listing the tables or a step of the enrichment of a table failed
ListOrEnrichFailed ==
    \E e \in failed : e[1] \in {"list", "columns", "comment", "define"}

\* Run has returned to start
RunReturned == pc \in {"Start", "Exit"}

\* C7: once listing or enriching has failed, GetAllTables returns no tables,
\* the output function is never called and nothing is written; Run returns
\* an error
C7_NoPartialOutput ==
    ListOrEnrichFailed =>
        /\ retTables = NilTables
        /\ outputCalls = 0
        /\ ~tmp.set
        /\ ~stdout.set
        /\ (RunReturned \/ pc = "Defer") => err # NoErr

\* the process ended after an enrichment failure that left another table
\* fully enriched
C7_Witness ==
    /\ pc = "Exit"
    /\ AllTaskFailures # {}
    /\ \E i \in Range(tables) : FullyEnriched(i)
    /\ ~stdout.set

\* the database statements Run issues
DbStatements == {"install", "list", "columns", "comment", "define", "drop"}

\* C8 as claimed: every failed database statement, the removal of the helper
\* procedure included, makes Run return an error
C8_AsClaimed ==
    (pc = "Exit" /\ \E e \in failed : e[1] \in DbStatements) => err # NoErr

\* C8: every failure of installing the helper procedure, listing the tables,
\* reading columns, reading comments or reconstructing a definition makes
\* Run return an error; a failure of the removal of the helper procedure is
\* ignored; without a failure Run returns no error, also when the comment
\* queries found no comment
C8_ErrorsPropagate ==
    pc = "Exit" =>
        /\ (\E e \in failed : e[1] \in DbStatements \ {"drop"}) => err # NoErr
        /\ failed \subseteq {<<"drop", 0>>} => (err = NoErr /\ stdout.set)

\* a PostgreSQL run in which only a table comment query failed
C8_Witness ==
    /\ pc = "Exit"
    /\ driver = "postgresql"
    /\ Cardinality(failed) = 1
    /\ \E i \in Range(tables) : <<"comment", i>> \in failed
    /\ err # NoErr

\* ------------------------------------------------------------------------
\* Properties of the comment backfill
\* ------------------------------------------------------------------------

\* a comment that is neither empty nor the name of its table or column
RealComment(comment, name) == comment # s_empty /\ comment # name

\* C9: the backfill step of Run changes no table comment and no column
\* comment that is non-empty and different from the name of its table or
\* column
C9_BackfillKeepsRealComments ==
    [][pc = "Backfill" =>
        \A i \in DOMAIN tab :
            /\ RealComment(tab[i].Comment, tab[i].Table) =>
                   tab'[i].Comment = tab[i].Comment
            /\ \A j \in 1..Len(tab[i].Columns) :
                   RealComment(tab[i].Columns[j].Comment, tab[i].Columns[j].Column) =>
                       tab'[i].Columns[j].Comment = tab[i].Columns[j].Comment]_vars

\* the configured text for a table, empty when there is none
TableFallback(name) ==
    IF name \in DOMAIN cfg.Comments THEN cfg.Comments[name].Comment ELSE s_empty

\* the configured text for a column, empty when there is none
ColumnFallback(name, column) ==
    IF name \in DOMAIN cfg.Comments /\ column \in DOMAIN cfg.Comments[name].Columns
    THEN cfg.Comments[name].Columns[column]
    ELSE s_empty

\* the backfill has run on a table and a column that have a real comment and
\* a different configured text
C9_Witness ==
    /\ pc = "Output"
    /\ \E i \in Range(retTables) :
          /\ RealComment(tab[i].Comment, tab[i].Table)
          /\ TableFallback(tab[i].Table) \notin {s_empty, tab[i].Comment}
          /\ \E j \in 1..Len(tab[i].Columns) :
                /\ RealComment(tab[i].Columns[j].Comment, tab[i].Columns[j].Column)
                /\ ColumnFallback(tab[i].Table, tab[i].Columns[j].Column)
                       \notin {s_empty, tab[i].Columns[j].Comment}

\* the comment the adapter reads from the database: none on SQLite, empty
\* when the database has none
ReadComment(v) == IF driver = "sqlite" THEN s_empty ELSE Coalesce(v)

\* C10: in the tables handed to the renderer, a table whose comment read from
\* the database is empty or its own name and that has a configured text
\* carries that text, a column likewise, and a table with an empty comment
\* and no configured text carries its own name
C10_BackfillFills ==
    tmp.set =>
        \A i \in Range(tmp.Tables) :
            /\ (/\ ReadComment(db[i].Comment) \in {s_empty, db[i].Table}
                /\ TableFallback(db[i].Table) # s_empty)
                   => tab[i].Comment = TableFallback(db[i].Table)
            /\ (/\ ReadComment(db[i].Comment) = s_empty
                /\ TableFallback(db[i].Table) = s_empty)
                   => tab[i].Comment = db[i].Table
            /\ \A j \in 1..Len(db[i].Columns) :
                  (/\ ReadComment(db[i].Columns[j].Comment) \in {s_empty, db[i].Columns[j].Column}
                   /\ ColumnFallback(db[i].Table, db[i].Columns[j].Column) # s_empty)
                     => tab[i].Columns[j].Comment
                            = ColumnFallback(db[i].Table, db[i].Columns[j].Column)

\* the renderer got a table without comment and without configured text, a
\* table whose comment was its own name, and a column whose comment was its
\* own name, the latter two with a configured text
C10_Witness ==
    /\ pc = "Exit"
    /\ stdout.set
    /\ \E i \in Range(tmp.Tables) :
          /\ db[i].Comment = NilStr
          /\ TableFallback(db[i].Table) = s_empty
          /\ tab[i].Comment = tab[i].Table
    /\ \E i \in Range(tmp.Tables) :
          /\ ReadComment(db[i].Comment) = db[i].Table
          /\ tab[i].Comment = s_other
    /\ \E i \in Range(tmp.Tables) : \E j \in 1..Len(db[i].Columns) :
          /\ ReadComment(db[i].Columns[j].Comment) = db[i].Columns[j].Column
          /\ tab[i].Columns[j].Comment = s_colfb

\* ------------------------------------------------------------------------
\* Properties of the collected column names
\* ------------------------------------------------------------------------

\* the places of the column scan of Run: table p of the output, column j
ScanPlaces ==
    UNION {{<<p, j>> : j \in 1..Len(tab[tmp.Tables[p]].Columns)} : p \in 1..Len(tmp.Tables)}

NameAt(o) == tab[tmp.Tables[o[1]]].Columns[o[2]].Column

\* place o1 is scanned before place o2
ScannedBefore(o1, o2) == o1[1] < o2[1] \/ (o1[1] = o2[1] /\ o1[2] < o2[2])

\* the first place of the scan that holds the name
FirstPlace(name) ==
    CHOOSE o \in ScanPlaces :
        /\ NameAt(o) = name
        /\ \A o2 \in ScanPlaces : NameAt(o2) = name => (o2 = o \/ ScannedBefore(o, o2))

\* C11: AllTableColumns of the Template holds the column names of the tables
\* of the output and nothing else, each exactly once, ordered by their first
\* occurrence in the scan of the tables in output order and of the columns of
\* each table in stored order
C11_AllTableColumns ==
    tmp.set =>
        LET all == tmp.AllTableColumns
        IN  /\ Range(all) = {NameAt(o) : o \in ScanPlaces}
            /\ \A a, b \in 1..Len(all) :
                  a < b => /\ all[a] # all[b]
                           /\ ScannedBefore(FirstPlace(all[a]), FirstPlace(all[b]))

\* the output was written for tables that share column names, one of which
\* lists a name seen before ahead of another name seen before
C11_Witness ==
    /\ pc = "Exit"
    /\ stdout.set
    /\ Len(tmp.AllTableColumns) = 2
    /\ \E o1, o2 \in ScanPlaces :
          /\ o1[1] = o2[1]
          /\ o1[2] < o2[2]
          /\ FirstPlace(NameAt(o2)) # o2
          /\ ScannedBefore(FirstPlace(NameAt(o2)), FirstPlace(NameAt(o1)))

\* ------------------------------------------------------------------------
\* Properties of the type resolution
\* ------------------------------------------------------------------------

\* the nullability flag is "NO" in some letter case
IsNoFlag(v) == v \in {<<"n", "o">>, <<"N", "o">>, <<"n", "O">>, <<"N", "O">>}

Wrapped(t) == t # <<>> /\ Head(t) = "*"
BaseOf(t) == IF Wrapped(t) THEN Tail(t) ELSE t

\* the families of keywords and the type of each
TypeFamilies ==
    { <<{kw_tinyint}, go_int8>>,
      <<{kw_smallint, kw_smallserial}, go_int16>>,
      <<{kw_integer, kw_serial, kw_int}, go_int>>,
      <<{kw_bigint, kw_bigserial}, go_int64>>,
      <<{kw_decimal, kw_numeric, kw_real, kw_double_precision, kw_double, kw_float},
        go_float64>>,
      <<{kw_bool, kw_boolean}, go_bool>>,
      <<{kw_binary, kw_varbinary, kw_tinyblob, kw_mediumblob, kw_longblob, kw_blob,
         kw_bytea}, go_bytes>> }

\* the type of a keyword: that of its family, string for every other keyword
SpecifiedType(w) ==
    IF \E f \in TypeFamilies : w \in f[1]
    THEN (CHOOSE f \in TypeFamilies : w \in f[1])[2]
    ELSE go_string

\* the keyword of a column: its data type, or its declared type when it has
\* no data type, in lower case
SpecifiedKeyword(c) ==
    IF c.DataType \notin {NilStr, s_empty} THEN ToLower(c.DataType)
    ELSE IF c.Type # NilStr THEN ToLower(c.Type)
    ELSE s_empty

\* C12: goType never yields "*[]byte"; a column whose nullability flag is "NO"
\* in any letter case is never wrapped; every other column whose base type is
\* not []byte resolves to the base type prefixed with "*"
C12_NullableWrap ==
    result # NoResult =>
        /\ result # <<"*">> \o go_bytes
        /\ IsNoFlag(input.IsNullable) => ~Wrapped(result)
        /\ (~IsNoFlag(input.IsNullable)
             /\ SpecifiedType(SpecifiedKeyword(input)) # go_bytes)
               => result = <<"*">> \o SpecifiedType(SpecifiedKeyword(input))

\* goType was called for a nullable column of a byte-sequence type and left
\* it bare
C12_Witness ==
    /\ result = go_bytes
    /\ ~IsNoFlag(input.IsNullable)

\* C13: the base type goType resolves is the type of the family of the
\* lower-cased data type, or of the lower-cased declared type when there is
\* no data type, and string for every keyword outside the families
C13_TypeResolution ==
    result # NoResult => BaseOf(result) = SpecifiedType(SpecifiedKeyword(input))

\* goType resolved a column without data type by its upper-case declared type
C13_Witness ==
    /\ input.DataType = NilStr
    /\ input.Type = ToUpper(kw_integer)
    /\ BaseOf(result) = go_int

\* ------------------------------------------------------------------------
\* Properties of the identifier helpers
\* ------------------------------------------------------------------------

\* C14: Pascal, Camel and Underline return a string for every input
C14_Total ==
    /\ result.Pascal # Panic
    /\ result.Camel # Panic
    /\ result.Underline # Panic

\* the string without its underscores, in which a lower-case letter is in
\* upper case exactly when it was the first character or followed an
\* underscore
PascalSpecified(x) ==
    LET Keep(n) == x[n] # "_"
        kept == SelectSeq(Indices(Len(x)), Keep)
    IN  [m \in 1..Len(kept) |->
            IF IsLower(x[kept[m]]) /\ (kept[m] = 1 \/ x[kept[m] - 1] = "_")
            THEN ToUpperChar(x[kept[m]])
            ELSE x[kept[m]]]

\* C15: Pascal removes every underscore and raises a lower-case letter
\* exactly when it is the first character of the string or the first after
\* an underscore; Pascal("user_name") = "UserName", Pascal("myID") = "MyID",
\* Pascal("") = "", Camel("user_name") = "userName"
C15_Pascal ==
    /\ result.Pascal # NoResult =>
          /\ result.Pascal = PascalSpecified(input)
          /\ input = s_user_name => result.Pascal = s_UserName
          /\ input = s_myID => result.Pascal = s_MyID
          /\ input = s_empty => result.Pascal = s_empty
    /\ (result.Camel # NoResult /\ input = s_user_name) => result.Camel = s_userName

\* Pascal and Camel were called on "user_name"
C15_Witness ==
    /\ input = s_user_name
    /\ result.Pascal = s_UserName
    /\ result.Camel = s_userName

\* the string in lower case with an underscore in front of every upper-case
\* character that is neither the first character nor preceded by an
\* underscore
RECURSIVE UnderlineSpecified(_, _)
UnderlineSpecified(x, n) ==
    IF n > Len(x) THEN <<>>
    ELSE (IF IsUpper(x[n]) /\ n > 1 /\ x[n - 1] # "_" THEN <<"_">> ELSE <<>>)
         \o <<ToLowerChar(x[n])>> \o UnderlineSpecified(x, n + 1)

\* C16: Underline lower-cases every upper-case character and inserts an
\* underscore before each one that is not the first character, but none where
\* the source already has one: Underline("User_Name") = "user_name"
C16_Underline ==
    result.Underline # NoResult =>
        /\ result.Underline = UnderlineSpecified(input, 1)
        /\ input = s_User_Name => result.Underline = s_user_name

\* C17: Pascal(Underline(Pascal(x))) = Pascal(x)
C17_RoundTrip ==
    (result.Pascal # NoResult /\ result.RoundTrip # NoResult)
        => result.RoundTrip = result.Pascal

\* the round trip ran on an identifier whose Pascal form has an upper-case
\* letter after the first character
C17_Witness ==
    /\ result.Pascal # NoResult
    /\ result.RoundTrip = result.Pascal
    /\ \E n \in 2..Len(result.Pascal) : IsUpper(result.Pascal[n])

\* ------------------------------------------------------------------------
\* Properties of the adapter methods
\* ------------------------------------------------------------------------

\* the column queries sent so far
ColumnStmts == {st \in stmts : st[1] = "columns"}

\* QueryColumns, the only method called so far, returned no column and no
\* error and sent no query
ReturnedEmpty ==
    /\ result.columns = <<>>
    /\ result.err = NoErr
    /\ ColumnStmts = {}

\* C18 as claimed: every adapter returns no column and no error and sends no
\* query when the schema name or the table name is empty
C18_AsClaimed ==
    (result.called = {"QueryColumns"} /\ (input.schema = s_empty \/ input.table = s_empty))
        => ReturnedEmpty

\* C18: QueryColumns of MySQL and PostgreSQL returns no column and no error
\* and sends no query when the schema name or the table name is empty; that
\* of SQLite does so when the table name is empty, and sends its query for
\* every other table name whatever the schema name
C18_EmptyNames ==
    result.called = {"QueryColumns"} =>
        /\ (driver \in {"mysql", "postgresql"}
             /\ (input.schema = s_empty \/ input.table = s_empty)) => ReturnedEmpty
        /\ (driver = "sqlite" /\ input.table = s_empty) => ReturnedEmpty
        /\ (driver = "sqlite" /\ input.table # s_empty) => ColumnStmts # {}

\* QueryColumns of PostgreSQL was called with a table name and an empty
\* schema name
C18_Witness ==
    /\ driver = "postgresql"
    /\ result.called = {"QueryColumns"}
    /\ input.schema = s_empty
    /\ input.table # s_empty
    /\ Len(input.row.Columns) > 0
    /\ ReturnedEmpty

\* the sequence names of the default expressions
SequenceNames == {s_seq, <<"s", "2">>}

\* the default expression is nextval('name'::regclass) once its double
\* quotes are removed
NamesSequence(d, name) ==
    LET NotQuote(c) == c # t_quote
    IN  d # NilStr /\ SelectSeq(d, NotQuote) = <<t_nextval>> \o name \o <<t_regclass>>

SequenceLine(name) == <<"CREATE SEQUENCE IF NOT EXISTS ">> \o name \o <<" START 1;", "\n">>

StartsWith(text, prefix) ==
    Len(prefix) <= Len(text) /\ SubSeq(text, 1, Len(prefix)) = prefix

\* the columns of the table that carry a sequence-backed default
SequenceColumns ==
    {j \in 1..Len(result.columns) :
        \E name \in SequenceNames : NamesSequence(result.columns[j].ColumnDefault, name)}

\* C19: after QueryTableDefineSql of PostgreSQL, for every column whose
\* default without its double quotes is nextval('S'::regclass) the definition
\* starts with the line CREATE SEQUENCE IF NOT EXISTS S START 1; and
\* AutoIncrementColumn names a column with such a default; without such a
\* column AutoIncrementColumn is empty and the definition starts with no
\* CREATE SEQUENCE line
C19_SequenceLine ==
    ("QueryTableDefineSql" \in result.called /\ result.err = NoErr) =>
        /\ \A j \in 1..Len(result.columns) : \A name \in SequenceNames :
              NamesSequence(result.columns[j].ColumnDefault, name)
                  => /\ StartsWith(result.defined, SequenceLine(name))
                     /\ \E h \in SequenceColumns :
                           result.table.AutoIncrementColumn = result.columns[h].Column
        /\ SequenceColumns = {}
              => /\ result.table.AutoIncrementColumn = s_empty
                 /\ Head(result.defined) # "CREATE SEQUENCE IF NOT EXISTS "

\* part occurs in text
Contains(text, part) ==
    \E a \in 0..(Len(text) - Len(part)) : SubSeq(text, a + 1, a + Len(part)) = part

\* C27: after QueryTableDefineSql of PostgreSQL the definition contains, for
\* every column whose default matches nextval('S'::regclass), the line
\* CREATE SEQUENCE IF NOT EXISTS S START 1; of its sequence S
C27_EverySequence ==
    ("QueryTableDefineSql" \in result.called /\ result.err = NoErr) =>
        \A j \in 1..Len(result.columns) :
            pgsqlSeq(result.columns[j].ColumnDefault)
                => Contains(result.defined,
                            SequenceLine(SeqName(result.columns[j].ColumnDefault)))

\* the default expression matches the pattern of a sequence neither as it is
\* nor without its double quotes
NotSequenceBacked(d) == ~pgsqlSeq(d) /\ ~pgsqlSeq(StripQuotes(d))

\* C28: QueryTableDefineSql of PostgreSQL leaves the default expression of
\* every column that is not sequence-backed as QueryColumns returned it
C28_DefaultsKept ==
    "QueryTableDefineSql" \in result.called =>
        \A j \in 1..Len(result.columns) :
            NotSequenceBacked(result.columns[j].ColumnDefault)
                => result.table.Columns[j].ColumnDefault
                       = result.columns[j].ColumnDefault

\* ------------------------------------------------------------------------
\* Properties of the helper procedure
\* ------------------------------------------------------------------------

\* the listing and enrichment queries sent so far
Introspection == {st \in stmts : st[1] \in {"list", "columns", "comment", "define"}}

\* C20: on PostgreSQL every listing and enrichment query is sent after the
\* helper procedure was installed and before its removal, and a Run that
\* installed it has sent the removal when it returns, whatever it returns; on
\* MySQL and SQLite neither statement is sent
C20_HelperLifetime ==
    /\ driver = "postgresql" => \A st \in Introspection : st[3] /\ ~st[4]
    /\ (driver = "postgresql" /\ installed /\ RunReturned)
          => \E st \in stmts : st[1] = "drop"
    /\ driver # "postgresql" => \A st \in stmts : st[1] \notin {"install", "drop"}

\* a Run on PostgreSQL sent definition queries, failed in the output function
\* and returned after the removal
C20_Witness ==
    /\ driver = "postgresql"
    /\ pc = "Exit"
    /\ err = <<"output", 0>>
    /\ \E st \in stmts : st[1] = "define"
    /\ \E st \in stmts : st[1] = "drop"

\* ------------------------------------------------------------------------
\* Column.init called twice on one column
\* ------------------------------------------------------------------------

ColumnAttrs == {a_bigint_no, a_varchar_yes, a_blob_yes}

\* a column as QueryColumns builds it
NewColumn(name, a) ==
    [ZeroColumn EXCEPT !.Column = name, !.IsNullable = a.IsNullable,
                       !.DataType = a.DataType, !.Type = a.Type]

InitColumn ==
    /\ InitRun({"mysql"}, {NewConfig(s_empty, s_empty, EmptyMap)}, <<>>)
    /\ input \in {NewColumn(n, a) : n \in Identifiers, a \in ColumnAttrs}
    /\ result = [phase |-> "new", before |-> input, col |-> input]

\* the first c.init(way)
Call_init ==
    /\ result.phase = "new"
    /\ result' = IF InitPanics(result.col)
                 THEN [result EXCEPT !.phase = "panic"]
                 ELSE [result EXCEPT !.phase = "init", !.col = Column_init(@)]
    /\ UNCHANGED <<input, runVars>>

\* the catalog attributes of the column are replaced between two calls
Set_Attrs ==
    /\ result.phase = "init"
    /\ \E a \in ColumnAttrs :
          /\ a.DataType # result.col.DataType
          /\ result' = [result EXCEPT
                           !.phase = "changed",
                           !.col = [@ EXCEPT !.IsNullable = a.IsNullable,
                                             !.DataType = a.DataType, !.Type = a.Type]]
    /\ UNCHANGED <<input, runVars>>

\* a later c.init(way) on the same column
Call_initAgain ==
    /\ result.phase \in {"init", "changed"}
    /\ ~InitPanics(result.col)
    /\ result' = [result EXCEPT !.phase = "again", !.before = result.col,
                                !.col = Column_init(@)]
    /\ UNCHANGED <<input, runVars>>

NextColumn ==
    \/ Call_init
    \/ Set_Attrs
    \/ Call_initAgain

SpecColumn == InitColumn /\ [][NextColumn]_vars

\* ------------------------------------------------------------------------
\* Properties of the tasks of QuerySchemas
\* ------------------------------------------------------------------------

\* the concurrent QuerySchemas is running
Enriching == pc = "QuerySchemas" /\ Concurrent

\* the tasks that were launched and have not finished
InFlight == {i \in DOMAIN task : task[i] \notin {"idle", "done"}}

\* C21 as claimed: the number of tasks in flight never exceeds a fixed size
C21_AsClaimed == Cardinality(InFlight) <= MaxOpenConns

\* C21: QuerySchemas of MySQL and PostgreSQL launches exactly one task for
\* every table the loop has passed and none for any other table, the
\* WaitGroup counts the tasks in flight, and their number is bounded by the
\* number of tables only
C21_OneTaskPerTable ==
    Enriching =>
        /\ \A a, b \in 1..Len(tables) : a # b => tables[a] # tables[b]
        /\ {i \in DOMAIN task : task[i] # "idle"} = {tables[j] : j \in 1..(k - 1)}
        /\ wg = Cardinality(InFlight)
        /\ wg <= Len(tables)

\* the loop has ended with a task in flight for every table, more of them
\* than connections may be open
C21_Witness ==
    /\ Enriching
    /\ k > Len(tables)
    /\ Cardinality(InFlight) = Len(tables)
    /\ Len(tables) > MaxOpenConns

\* the values the step of a task may give its table t, computed from t and
\* the catalog row of t alone
OwnWrites(d, step, t, row) ==
    IF step = "columns" THEN {[t EXCEPT !.Columns = QueryColumns(d, t, row)]}
    ELSE IF step = "comment"
    THEN {[t EXCEPT !.Comment = IF row.Comment = NilStr THEN @ ELSE row.Comment],
          [t EXCEPT !.Comment = s_empty]}
    ELSE IF step = "define" /\ d = "mysql"
    THEN {[MysqlAutoIncrement(t) EXCEPT !.Defined = MysqlDefined(row)],
          MysqlAutoIncrement(t)}
    ELSE IF step = "define"
    THEN {[PgScanDefaults(t) EXCEPT !.Defined = PgDefined(PgScanDefaults(t), row)],
          PgScanDefaults(t)}
    ELSE {}

\* the step from the current state to the next writes table i
Written(i) == tab'[i] # tab[i]

\* C22: while the tasks of QuerySchemas run, a step that writes table T
\* (its fields or its columns) is a step of the task of T, it writes no other
\* table and moves no other task, and what it writes is computed from T and
\* the catalog row of T only, whatever the other tasks have written
C22_OwnTableOnly ==
    [][Enriching =>
        \A i \in DOMAIN tab :
            Written(i) =>
                /\ task[i] \in {"columns", "comment", "define"}
                /\ task'[i] # task[i]
                /\ \A h \in DOMAIN tab \ {i} : tab'[h] = tab[h] /\ task'[h] = task[h]
                /\ tab'[i] \in OwnWrites(driver, task[i], tab[i], db[i])]_vars

\* two tasks are in flight together and each has written the columns of its
\* own table
C22_Witness ==
    /\ Enriching
    /\ \E i, h \in InFlight :
          /\ i # h
          /\ tab[i].Columns # <<>>
          /\ tab[h].Columns # <<>>
          /\ tab[i].Columns # tab[h].Columns

\* the steps of a task in the order the task takes them
TaskSteps == <<"columns", "comment", "define">>

\* a statement of step b was sent for table i, and b comes after step a
SentAfter(i, a) ==
    \E q \in stmts :
        /\ q[2] = i
        /\ q[1] \in Range(TaskSteps)
        /\ Pos(TaskSteps, a) < Pos(TaskSteps, q[1])

\* C26: in the task of a table, MySQL or PostgreSQL, a step that has failed
\* is the last step of the task: no statement of a later step is sent for
\* that table
C26_FailedStepIsLast ==
    Concurrent => \A i \in DOMAIN tab : \A e \in TaskFailures(i) : ~SentAfter(i, e[1])

\* ------------------------------------------------------------------------
\* Properties of the SQLite QuerySchemas
\* ------------------------------------------------------------------------

\* the SQLite QuerySchemas has returned the error of a column query
SqliteColumnsFailed == driver = "sqlite" /\ err # NoErr /\ err[1] = "columns"

\* the place in the list of the table whose column query failed
FailedPlace == CHOOSE f \in 1..Len(tables) : tables[f] = err[2]

\* table i as the listing query returned it
Listed(i) == ScanTable(driver, db[i])

\* table i has the columns and the auto-increment column of its catalog row
SqliteEnriched(i) ==
    /\ tab[i].Columns = QueryColumns(driver, Listed(i), db[i])
    /\ tab[i].AutoIncrementColumn = SqliteAutoIncrement(Listed(i), tab[i].Columns)
    /\ tab[i] = [Listed(i) EXCEPT !.Columns = tab[i].Columns,
                                  !.AutoIncrementColumn = tab[i].AutoIncrementColumn]

\* C23: when the SQLite QuerySchemas has returned at a failing column query,
\* the failing table is the one the loop stands at, every table before it in
\* the list has its columns and its auto-increment column, the failing table
\* and every later table are as the listing query returned them, and no
\* column query was sent for a later table
C23_StopsAtFirstFailure ==
    SqliteColumnsFailed =>
        /\ \E f \in 1..Len(tables) : tables[f] = err[2]
        /\ FailedPlace = k
        /\ \A j \in 1..(FailedPlace - 1) : SqliteEnriched(tables[j])
        /\ \A j \in FailedPlace..Len(tables) : tab[tables[j]] = Listed(tables[j])
        /\ \A j \in (FailedPlace + 1)..Len(tables) :
              \A q \in stmts : ~(q[1] = "columns" /\ q[2] = tables[j])
        /\ \E q \in stmts : q[1] = "columns" /\ q[2] = err[2]
        /\ failed \cap {<<"columns", i>> : i \in DOMAIN tab} = {err}

\* the column query failed for a table that has an enriched table with an
\* auto-increment column before it and a table after it
C23_Witness ==
    /\ SqliteColumnsFailed
    /\ 1 < FailedPlace
    /\ FailedPlace < Len(tables)
    /\ \E j \in 1..(FailedPlace - 1) :
          /\ tab[tables[j]].Columns # <<>>
          /\ tab[tables[j]].AutoIncrementColumn # s_empty

\* ------------------------------------------------------------------------
\* Properties of Underline followed by Pascal
\* ------------------------------------------------------------------------

\* C25 as claimed: Pascal does not recover HTTPServer from its Underline form
C25_AsClaimed ==
    (input = s_HTTPServer /\ result.Back # NoResult) => result.Back # s_HTTPServer

\* the identifier has no underscore and does not start with a lower-case
\* letter
Recoverable(x) ==
    /\ \A n \in 1..Len(x) : x[n] # "_"
    /\ x # <<>> => ~IsLower(x[1])

\* C25: Underline turns HTTPServer into h_t_t_p_server and Pascal turns that
\* back into HTTPServer; Pascal(Underline(x)) is x exactly for the identifiers
\* x without an underscore that do not start with a lower-case letter,
\* consecutive capitals or not
C25_BackToPascal ==
    /\ (input = s_HTTPServer /\ result.Underline # NoResult)
           => result.Underline = s_h_t_t_p_server
    /\ (input = s_HTTPServer /\ result.Back # NoResult) => result.Back = s_HTTPServer
    /\ result.Back # NoResult => (result.Back = input <=> Recoverable(input))

\* both conversions of HTTPServer were made
C25_Witness ==
    /\ input = s_HTTPServer
    /\ result.Underline = s_h_t_t_p_server
    /\ result.Back = s_HTTPServer

\* ------------------------------------------------------------------------
\* Properties of Column.init
\* ------------------------------------------------------------------------

\* C24: a call of Column.init on a column on which init has run before
\* changes no field of the column, whatever the name of the column and also
\* when its catalog attributes were replaced between the two calls
C24_InitOnce == result.phase = "again" => result.col = result.before

====
